---------------------------- MODULE Spec2Model ----------------------------
(* A model of the protoc-gen-go derived generator of toba/ts-protobuf:     *)
(* identifier allocation in generateMessage, the generated oneof codec,    *)
(* goTag, enum defaults of getters and the package-name registry.          *)
(*                                                                         *)
(* Go strings are sequences of one-character strings, so that CamelCase    *)
(* and the suffix loops are computed character by character as in the      *)
(* source.                                                                 *)
EXTENDS Integers, Sequences, FiniteSets, TLC

VARIABLES
    message,            \* the Descriptor handed to generateMessage
    pc,                 \* position inside generate / generateMessage
    fi,                 \* index of the next field of the field loop (1-based)
    usedNames,          \* generateMessage: usedNames
    fieldNames,         \* generateMessage: fieldNames, by field index
    fieldGetterNames,   \* generateMessage: fieldGetterNames, by field index
    oneofFieldName,     \* generateMessage: oneofFieldName, by oneof index
    oneofDisc,          \* generateMessage: oneofDisc, by oneof index
    oneofTypeName,      \* generateMessage: oneofTypeName, by field index
    allocLog,           \* every batch allocNames returned: [cand, got]
    emitted,            \* type and method declarations written by g.P
    buffer,             \* g.Buffer while generateMessage writes the struct, by line
    oneofInsertPoints,  \* generateMessage: oneofInsertPoints, by oneof index
    refObj,             \* the Object the type name of a field resolves to
    gfileEnum,          \* g.file.enum: the enums of the file being generated
    goTags,             \* what goTag returned, by field index
    defNames,           \* generateMessage: defNames, by field index
    decls,              \* constant and variable declarations written by g.P
    getterBody,         \* the getters written, by field index
    getters,            \* generateMessage: getters (the exported getter symbols)
    oneofFuncs,         \* the generated marshaler, unmarshaler and sizer of the message
    origin,             \* where the bytes being decoded come from
    src,                \* the message handed to the marshaler and the sizer
    wireOut,            \* the bytes the marshaler wrote
    encErr,             \* the error the marshaler returned
    sizerN,             \* what the sizer returned
    dst,                \* the message being decoded into
    wireIn,             \* the bytes not yet read by the decoding Buffer
    rpc,                \* position of the run-time use of the generated functions
    ret,                \* the last call of the unmarshaler and what it returned
    allFiles,           \* Generator.allFiles
    genFiles,           \* Generator.genFiles, as indexes into allFiles
    PackageImportPath,  \* Generator.PackageImportPath
    pkgNamesInUse,      \* the package-level pkgNamesInUse
    uniquePackageName,  \* the package-level uniquePackageName, by index into allFiles
    packageName,        \* Generator.packageName
    Pkg,                \* Generator.Pkg
    ppc,                \* position inside SetPackageNames
    regLog,             \* the calls of RegisterUniquePackageName: [pkg, file, got]
    run,                \* how many Generators this process has made
    firstRun,           \* what SetPackageNames set for the first Generator
    Request,            \* Generator.Request: ProtoFile and FileToGenerate
    fileDesc,           \* FileDescriptor.desc, by index into allFiles
    fileEnum,           \* FileDescriptor.enum, by index into allFiles
    fileImp,            \* FileDescriptor.imp, by index into allFiles
    fileExported,       \* FileDescriptor.exported, by index into allFiles
    typeNameToObject,   \* Generator.typeNameToObject
    gfile,              \* Generator.file, as an index into allFiles
    usedPackages,       \* Generator.usedPackages
    written,            \* what generate wrote for each file: aliases and field types
    Buffer,             \* g.Buffer, by line
    ginit,              \* g.init: the queued lines of the init function
    Response,           \* g.Response.File
    warnings,           \* the warnings ObjectNamed logged
    tpc                 \* position inside main: WrapTypes .. GenerateAllFiles

nameVars == <<message, pc, fi, usedNames, fieldNames, fieldGetterNames,
              oneofFieldName, oneofDisc, oneofTypeName, allocLog, emitted,
              buffer, oneofInsertPoints>>

fieldVars == <<refObj, gfileEnum, goTags, defNames, decls, getterBody, getters>>

codecVars == <<oneofFuncs, origin, src, wireOut, encErr, sizerN, dst, wireIn, rpc, ret>>

pkgVars == <<allFiles, genFiles, PackageImportPath, pkgNamesInUse, uniquePackageName,
             packageName, Pkg, ppc, regLog, run, firstRun>>

typeVars == <<Request, fileDesc, fileEnum, fileImp, fileExported, typeNameToObject,
              gfile, usedPackages, written, Buffer, ginit, Response, warnings, tpc>>

vars == <<nameVars, fieldVars, codecVars, pkgVars, typeVars>>

-----------------------------------------------------------------------------
(* Strings *)

LowerChars == <<"a","b","c","d","e","f","g","h","i","j","k","l","m",
                "n","o","p","q","r","s","t","u","v","w","x","y","z">>

UpperChars == <<"A","B","C","D","E","F","G","H","I","J","K","L","M",
                "N","O","P","Q","R","S","T","U","V","W","X","Y","Z">>

DigitChars == <<"0","1","2","3","4","5","6","7","8","9">>

Range(s) == {s[i] : i \in DOMAIN s}

LowerSet == Range(LowerChars)

DigitSet == Range(DigitChars)

isASCIILower(c) == c \in LowerSet

isASCIIDigit(c) == c \in DigitSet

\* c ^ ' ' applied to a lower-case letter
ToUpper(c) == UpperChars[CHOOSE i \in DOMAIN LowerChars : LowerChars[i] = c]

\* the run of lower-case letters that starts at s[j]; returns its end index
RECURSIVE LowerRunEnd(_, _)
LowerRunEnd(s, i) ==
    IF i + 1 <= Len(s) /\ isASCIILower(s[i + 1]) THEN LowerRunEnd(s, i + 1) ELSE i

RECURSIVE CamelCaseLoop(_, _, _)
CamelCaseLoop(s, i, t) ==
    IF i > Len(s) THEN t
    ELSE LET c == s[i] IN
         IF c = "_" /\ i + 1 <= Len(s) /\ isASCIILower(s[i + 1])
         THEN CamelCaseLoop(s, i + 1, t)
         ELSE IF isASCIIDigit(c)
         THEN CamelCaseLoop(s, i + 1, Append(t, c))
         ELSE LET up == IF isASCIILower(c) THEN ToUpper(c) ELSE c
                  j  == LowerRunEnd(s, i)
              IN  CamelCaseLoop(s, j + 1, Append(t, up) \o SubSeq(s, i + 1, j))

CamelCase(s) ==
    IF s = <<>> THEN <<>>
    ELSE IF s[1] = "_" THEN CamelCaseLoop(s, 2, <<"X">>)
    ELSE CamelCaseLoop(s, 1, <<>>)

\* strings.Join(elem, "_")
RECURSIVE JoinUnderscore(_)
JoinUnderscore(elem) ==
    IF elem = <<>> THEN <<>>
    ELSE IF Len(elem) = 1 THEN elem[1]
    ELSE elem[1] \o <<"_">> \o JoinUnderscore(Tail(elem))

CamelCaseSlice(elem) == CamelCase(JoinUnderscore(elem))

\* s followed by k underscores
RECURSIVE Underscores(_)
Underscores(k) == IF k = 0 THEN <<>> ELSE <<"_">> \o Underscores(k - 1)


-----------------------------------------------------------------------------
(* generateMessage: identifier allocation *)

\* Bounds of the messages handed to generateMessage.
MaxFields == 3

methodNames == {
    <<"R","e","s","e","t">>,
    <<"S","t","r","i","n","g">>,
    <<"P","r","o","t","o","M","e","s","s","a","g","e">>,
    <<"M","a","r","s","h","a","l">>,
    <<"U","n","m","a","r","s","h","a","l">>,
    <<"E","x","t","e","n","s","i","o","n","R","a","n","g","e","A","r","r","a","y">>,
    <<"E","x","t","e","n","s","i","o","n","M","a","p">>,
    <<"D","e","s","c","r","i","p","t","o","r">> }

GetPrefix == <<"G","e","t">>

IsPrefix == <<"i","s">>

\* Declared names the checked messages draw from (proto identifiers).
FieldNamePool == {
    <<"f","o","o">>,
    <<"F","o","o">>,
    <<"f","o","o","_">>,
    <<"g","e","t","_","f","o","o">>,
    <<"r","e","s","e","t">> }

OneofDeclPool == {
    <<>>,
    << <<"f","o","o">> >>,
    << <<"u">>, <<"v">> >> }

NestedPool == { <<>>, << <<"F","o","o">> >> }

EnumsPool == { <<>>, << <<"F","o","o","_">> >> }

TypeNamePool == { << <<"M">> >> }


NoOneof == -1

NoDefault == [set |-> FALSE, val |-> ""]

\* A FieldDescriptorProto.  options is "nil" (no FieldOptions), "unset"
\* (options without packed), "true" or "false" (packed given).
MkField(name, number, type, label, oneofIndex, default, options) ==
    [name |-> name, number |-> number, type |-> type, label |-> label,
     oneofIndex |-> oneofIndex, default |-> default, options |-> options]

\* A Descriptor with its file's syntax.
MkMessage(typeName, field, oneofDecl, nested, enums, proto3) ==
    [typeName |-> typeName, field |-> field, oneofDecl |-> oneofDecl,
     nested |-> nested, enums |-> enums, proto3 |-> proto3]

\* Sequences of distinct declared field names, 1..MaxFields long.
FieldNameSeqs ==
    UNION { { q \in [1..n -> FieldNamePool] :
                \A i, j \in 1..n : i # j => q[i] # q[j] } : n \in 1..MaxFields }

\* The names declared directly in a message share one scope.
DeclaredNames(m) ==
    {m.field[i].name : i \in DOMAIN m.field} \cup Range(m.oneofDecl)
        \cup Range(m.nested) \cup Range(m.enums)

ScopeOk(m) ==
    Cardinality(DeclaredNames(m)) =
        Len(m.field) + Len(m.oneofDecl) + Len(m.nested) + Len(m.enums)

\* Descriptor.TypeName of a message or enum nested directly in m.
NestedTypeName(m, name) == Append(m.typeName, name)

\* The loop of allocNames: while some candidate is used, every candidate
\* of the batch gets one more underscore.
RECURSIVE allocNamesLoopOne(_, _)
allocNamesLoopOne(used, ns) ==
    IF \E i \in DOMAIN ns : ns[i] \in used
    THEN LET c == CHOOSE i \in DOMAIN ns :
                     ns[i] \in used /\ \A j \in DOMAIN ns : j < i => ns[j] \notin used
         IN  allocNamesLoopOne(used, [ns EXCEPT ![c] = ns[c] \o <<"_">>])
    ELSE ns

RECURSIVE allocNamesFirst(_, _)
allocNamesFirst(used, ns) ==
    IF ns[1] \in used
    THEN allocNamesFirst(used, [i \in DOMAIN ns |-> ns[i] \o <<"_">>])
    ELSE ns

RECURSIVE allocNames(_, _)
allocNames(used, ns) ==
    IF \E i \in DOMAIN ns : ns[i] \in used
    THEN allocNames(used, [i \in DOMAIN ns |-> ns[i] \o <<"_">>])
    ELSE ns

\* The collision loop of the oneof wrapper type name.
RECURSIVE oneofTnameNestedOnly(_, _)
oneofTnameNestedOnly(m, tname) ==
    IF \E i \in DOMAIN m.nested :
           CamelCaseSlice(NestedTypeName(m, m.nested[i])) = tname
    THEN oneofTnameNestedOnly(m, tname \o <<"_">>)
    ELSE tname

RECURSIVE oneofTname(_, _)
oneofTname(m, tname) ==
    IF \/ \E i \in DOMAIN m.nested :
              CamelCaseSlice(NestedTypeName(m, m.nested[i])) = tname
       \/ \E i \in DOMAIN m.enums :
              CamelCaseSlice(NestedTypeName(m, m.enums[i])) = tname
    THEN oneofTname(m, tname \o <<"_">>)
    ELSE tname

ccTypeName(m) == CamelCaseSlice(m.typeName)

-----------------------------------------------------------------------------
(* Machine words and the wire primitives the generated code calls.          *)
(* A word is the set of its one-bits (bit 0 is the least significant), a    *)
(* byte a subset of 0..7, a buffer a sequence of bytes.                     *)

Bits(lo, hi) == lo..hi

Xor(a, b) == (a \ b) \cup (b \ a)

\* x << k in a w-bit word
Shl(x, k, w) == {b + k : b \in x} \cap (0..(w - 1))

\* x >> k of a signed w-bit word (arithmetic shift)
Sar(x, k, w) ==
    {b - k : b \in {c \in x : c >= k}} \cup (IF (w - 1) \in x THEN (w - k)..(w - 1) ELSE {})

\* x >> k of an unsigned word
Shr(x, k) == {b - k : b \in {c \in x : c >= k}}

\* uint32(x), int32(x): the low 32 bits
Trunc32(x) == x \cap (0..31)

\* uint64(x) or int64(x) of an int32 x: sign extension
SignExtend32(x) == IF 31 \in x THEN x \cup (32..63) ELSE x

MaxOf(S) == CHOOSE b \in S : \A c \in S : c <= b

\* the word of a small natural number
NatWord(n) == {b \in 0..30 : (n \div (2 ^ b)) % 2 = 1}

\* the value of a byte
ByteVal(b) ==
    LET RECURSIVE Sum(_)
        Sum(S) == IF S = {} THEN 0
                  ELSE LET c == CHOOSE d \in S : TRUE IN 2 ^ c + Sum(S \ {c})
    IN  Sum(b)

WireCode ==
    [WireVarint |-> 0, WireFixed64 |-> 1, WireBytes |-> 2,
     WireStartGroup |-> 3, WireEndGroup |-> 4, WireFixed32 |-> 5]

\* proto.SizeVarint
SizeVarint(x) == IF x = {} THEN 1 ELSE (MaxOf(x) \div 7) + 1

\* Buffer.EncodeVarint: little-endian base-128 groups, bit 7 set on all but the last
EncodeVarint(x) ==
    LET n == SizeVarint(x)
    IN  [i \in 1..n |->
            {b - 7 * (i - 1) : b \in {c \in x : c >= 7 * (i - 1) /\ c < 7 * i}}
                \cup (IF i < n THEN {7} ELSE {})]

\* Buffer.EncodeFixed64 / EncodeFixed32: little-endian bytes
EncodeFixed(x, nbytes) ==
    [i \in 1..nbytes |-> {b - 8 * (i - 1) : b \in {c \in x : c >= 8 * (i - 1) /\ c < 8 * i}}]

\* Buffer.EncodeZigzag32(x uint64)
EncodeZigzag32(x) ==
    EncodeVarint(Xor(Shl(Trunc32(x), 1, 32), Sar(Trunc32(x), 31, 32)))

\* Buffer.EncodeZigzag64(x uint64)
EncodeZigzag64(x) == EncodeVarint(Xor(Shl(x, 1, 64), Sar(x, 63, 64)))

\* Buffer.EncodeRawBytes / EncodeStringBytes
EncodeRawBytes(s) == EncodeVarint(NatWord(Len(s))) \o s

\* Buffer.DecodeVarint: [x, rest, err]
RECURSIVE DecodeVarintFrom(_, _, _)
DecodeVarintFrom(buf, i, x) ==
    IF i > 10 THEN [x |-> {}, rest |-> buf, err |-> "errOverflow"]
    ELSE IF i > Len(buf) THEN [x |-> {}, rest |-> buf, err |-> "ErrUnexpectedEOF"]
    ELSE LET acc == x \cup ({b + 7 * (i - 1) : b \in buf[i] \ {7}} \cap (0..63))
         IN  IF 7 \in buf[i]
             THEN DecodeVarintFrom(buf, i + 1, acc)
             ELSE [x |-> acc, rest |-> SubSeq(buf, i + 1, Len(buf)), err |-> "nil"]

DecodeVarint(buf) == DecodeVarintFrom(buf, 1, {})

\* Buffer.DecodeFixed64 / DecodeFixed32
DecodeFixed(buf, nbytes) ==
    IF Len(buf) < nbytes THEN [x |-> {}, rest |-> buf, err |-> "ErrUnexpectedEOF"]
    ELSE [x    |-> UNION {{b + 8 * (i - 1) : b \in buf[i]} : i \in 1..nbytes},
          rest |-> SubSeq(buf, nbytes + 1, Len(buf)),
          err  |-> "nil"]

\* Buffer.DecodeZigzag32
DecodeZigzag32(buf) ==
    LET r == DecodeVarint(buf)
        u == Trunc32(r.x)
    IN  IF r.err # "nil" THEN r
        ELSE [r EXCEPT !.x = Xor(Shr(u, 1), IF 0 \in u THEN 0..31 ELSE {})]

\* Buffer.DecodeZigzag64
DecodeZigzag64(buf) ==
    LET r == DecodeVarint(buf)
    IN  IF r.err # "nil" THEN r
        ELSE [r EXCEPT !.x = Xor(Shr(r.x, 1), IF 0 \in r.x THEN 0..63 ELSE {})]

\* the length a decoded varint announces, when it fits the buffer
WordFits(x, limit) == x = {} \/ (MaxOf(x) <= 20 /\ ByteVal(x) <= limit)

\* Buffer.DecodeRawBytes / DecodeStringBytes
DecodeRawBytes(buf) ==
    LET r == DecodeVarint(buf)
    IN  IF r.err # "nil" THEN r
        ELSE IF ~WordFits(r.x, Len(r.rest))
        THEN [x |-> <<>>, rest |-> buf, err |-> "ErrUnexpectedEOF"]
        ELSE LET n == ByteVal(r.x)
             IN  [x |-> SubSeq(r.rest, 1, n),
                  rest |-> SubSeq(r.rest, n + 1, Len(r.rest)),
                  err |-> "nil"]


-----------------------------------------------------------------------------
(* GoType and the text of the generated oneof functions *)

\* FieldDescriptorProto_Type, in descriptor order
Kinds == <<"double", "float", "int64", "uint64", "int32", "fixed64", "fixed32",
           "bool", "string", "group", "message", "bytes", "uint32", "enum",
           "sfixed32", "sfixed64", "sint32", "sint64">>

isRepeated(field) == field.label = "repeated"

isOptional(field) == field.label = "optional"

needsStarAlways(typ) == TRUE

isRequired(field) == field.label = "required"

needsStar(typ) == typ \notin {"group", "message", "bytes"}

\* A Go string from its characters
RECURSIVE Str(_)
Str(s) == IF s = <<>> THEN "" ELSE s[1] \o Str(Tail(s))

\* the concatenation of a sequence of strings
RECURSIVE Concat(_)
Concat(ss) == IF ss = <<>> THEN "" ELSE ss[1] \o Concat(Tail(ss))

\* An Object as ObjectNamed returns it: an enum or a message, the Go
\* package of its file, the proto package of its file, its TypeName and,
\* for an enum, its values in declaration order.
MkObject(kind, pkg, protoPkg, typeName, values) ==
    [kind |-> kind, pkg |-> pkg, protoPkg |-> protoPkg, typeName |-> typeName,
     values |-> values]

MkValue(name, number) == [name |-> name, number |-> number]

NoObject == MkObject("none", "", "", <<>>, <<>>)

DefaultPackageName(obj) == IF obj.pkg = packageName THEN "" ELSE obj.pkg \o "."

\* Generator.TypeName
TypeName(obj) == DefaultPackageName(obj) \o Str(CamelCaseSlice(obj.typeName))

\* GoType: [typ, wire]; typ is kept as its parts ("[]", "*", the name) so
\* that typename[0] == '*' and typename[1:] can be taken.
GoTypeOf(m, field, obj) ==
    LET base ==
          CASE field.type = "double"   -> [typ |-> <<"float64">>, wire |-> "fixed64"]
            [] field.type = "float"    -> [typ |-> <<"float32">>, wire |-> "fixed32"]
            [] field.type = "int64"    -> [typ |-> <<"int64">>,   wire |-> "varint"]
            [] field.type = "uint64"   -> [typ |-> <<"uint64">>,  wire |-> "varint"]
            [] field.type = "int32"    -> [typ |-> <<"int32">>,   wire |-> "varint"]
            [] field.type = "uint32"   -> [typ |-> <<"uint32">>,  wire |-> "varint"]
            [] field.type = "fixed64"  -> [typ |-> <<"uint64">>,  wire |-> "fixed64"]
            [] field.type = "fixed32"  -> [typ |-> <<"uint32">>,  wire |-> "fixed32"]
            [] field.type = "bool"     -> [typ |-> <<"bool">>,    wire |-> "varint"]
            [] field.type = "string"   -> [typ |-> <<"string">>,  wire |-> "bytes"]
            [] field.type = "group"    -> [typ |-> <<"*", TypeName(obj)>>, wire |-> "group"]
            [] field.type = "message"  -> [typ |-> <<"*", TypeName(obj)>>, wire |-> "bytes"]
            [] field.type = "bytes"    -> [typ |-> <<"[]byte">>,  wire |-> "bytes"]
            [] field.type = "enum"     -> [typ |-> <<TypeName(obj)>>, wire |-> "varint"]
            [] field.type = "sfixed32" -> [typ |-> <<"int32">>,   wire |-> "fixed32"]
            [] field.type = "sfixed64" -> [typ |-> <<"int64">>,   wire |-> "fixed64"]
            [] field.type = "sint32"   -> [typ |-> <<"int32">>,   wire |-> "zigzag32"]
            [] field.type = "sint64"   -> [typ |-> <<"int64">>,   wire |-> "zigzag64"]
    IN  IF isRepeated(field) THEN [base EXCEPT !.typ = <<"[]">> \o base.typ]
        ELSE IF m.proto3 THEN base
        ELSE IF field.oneofIndex # NoOneof THEN base
        ELSE IF needsStar(field.type) THEN [base EXCEPT !.typ = <<"*">> \o base.typ]
        ELSE base

\* GoType, with what ObjectNamed returns for the type name of the field
GoType(m, field) == GoTypeOf(m, field, refObj)

\* The switch of the oneof marshaler: what is printed for one field.
OneofEncCase(field) ==
    CASE field.type = "double" ->
           [wire |-> "WireFixed64", pre |-> "b.EncodeFixed64(" \o Pkg.math \o ".Float64bits(", canFail |-> FALSE]
      [] field.type = "float" ->
           [wire |-> "WireFixed32", pre |-> "b.EncodeFixed32(uint64(" \o Pkg.math \o ".Float32bits(", canFail |-> FALSE]
      [] field.type \in {"int64", "uint64"} ->
           [wire |-> "WireVarint", pre |-> "b.EncodeVarint(uint64(", canFail |-> FALSE]
      [] field.type \in {"int32", "uint32", "enum"} ->
           [wire |-> "WireVarint", pre |-> "b.EncodeVarint(uint64(", canFail |-> FALSE]
      [] field.type \in {"fixed64", "sfixed64"} ->
           [wire |-> "WireFixed64", pre |-> "b.EncodeFixed64(uint64(", canFail |-> FALSE]
      [] field.type \in {"fixed32", "sfixed32"} ->
           [wire |-> "WireFixed32", pre |-> "b.EncodeFixed32(uint64(", canFail |-> FALSE]
      [] field.type = "bool" ->
           [wire |-> "WireVarint", pre |-> "b.EncodeVarint(", canFail |-> FALSE]
      [] field.type = "string" ->
           [wire |-> "WireBytes", pre |-> "b.EncodeStringBytes(", canFail |-> FALSE]
      [] field.type = "group" ->
           [wire |-> "WireStartGroup", pre |-> "b.Marshal(", canFail |-> TRUE]
      [] field.type = "message" ->
           [wire |-> "WireBytes", pre |-> "b.EncodeMessage(", canFail |-> TRUE]
      [] field.type = "bytes" ->
           [wire |-> "WireBytes", pre |-> "b.EncodeRawBytes(", canFail |-> FALSE]
      [] field.type = "sint32" ->
           [wire |-> "WireVarint", pre |-> "b.EncodeZigzag32(uint64(", canFail |-> FALSE]
      [] field.type = "sint64" ->
           [wire |-> "WireVarint", pre |-> "b.EncodeZigzag64(uint64(", canFail |-> FALSE]

\* The first switch of the oneof unmarshaler.
OneofDecCase(typ, field) ==
    CASE field.type = "double" ->
           [dec |-> "b.DecodeFixed64()", cast |-> Pkg.math \o ".Float64frombits", cast2 |-> ""]
      [] field.type = "float" ->
           [dec |-> "b.DecodeFixed32()", cast |-> "uint32", cast2 |-> Pkg.math \o ".Float32frombits"]
      [] field.type = "int64" ->
           [dec |-> "b.DecodeVarint()", cast |-> "int64", cast2 |-> ""]
      [] field.type = "uint64" ->
           [dec |-> "b.DecodeVarint()", cast |-> "", cast2 |-> ""]
      [] field.type = "int32" ->
           [dec |-> "b.DecodeVarint()", cast |-> "int32", cast2 |-> ""]
      [] field.type = "fixed64" ->
           [dec |-> "b.DecodeFixed64()", cast |-> "", cast2 |-> ""]
      [] field.type = "fixed32" ->
           [dec |-> "b.DecodeFixed32()", cast |-> "uint32", cast2 |-> ""]
      [] field.type = "bool" ->
           [dec |-> "b.DecodeVarint()", cast |-> "", cast2 |-> ""]
      [] field.type = "string" ->
           [dec |-> "b.DecodeStringBytes()", cast |-> "", cast2 |-> ""]
      [] field.type = "group" ->
           [dec |-> "b.DecodeGroup(msg)", cast |-> "", cast2 |-> ""]
      [] field.type = "message" ->
           [dec |-> "b.DecodeMessage(msg)", cast |-> "", cast2 |-> ""]
      [] field.type = "bytes" ->
           [dec |-> "b.DecodeRawBytes(true)", cast |-> "", cast2 |-> ""]
      [] field.type = "uint32" ->
           [dec |-> "b.DecodeVarint()", cast |-> "uint32", cast2 |-> ""]
      [] field.type = "enum" ->
           [dec |-> "b.DecodeVarint()", cast |-> typ, cast2 |-> ""]
      [] field.type = "sfixed32" ->
           [dec |-> "b.DecodeFixed32()", cast |-> "int32", cast2 |-> ""]
      [] field.type = "sfixed64" ->
           [dec |-> "b.DecodeFixed64()", cast |-> "int64", cast2 |-> ""]
      [] field.type = "sint32" ->
           [dec |-> "b.DecodeZigzag32()", cast |-> "int32", cast2 |-> ""]
      [] field.type = "sint64" ->
           [dec |-> "b.DecodeZigzag64()", cast |-> "int64", cast2 |-> ""]

\* The second switch of the oneof unmarshaler: the expression stored.
OneofDecVal(field) ==
    CASE field.type = "bool" -> "x != 0"
      [] field.type \in {"group", "message"} -> "msg"
      [] OTHER -> "x"

\* The switch of the oneof sizer; x stands for the wrapped value.
OneofSizeCaseNoZigzag(field) ==
    CASE field.type \in {"double", "fixed64", "sfixed64"} ->
           [wire |-> "WireFixed64", varint |-> "", fixed |-> "8"]
      [] field.type \in {"float", "fixed32", "sfixed32"} ->
           [wire |-> "WireFixed32", varint |-> "", fixed |-> "4"]
      [] field.type \in {"int64", "uint64", "int32", "uint32", "enum", "sint32", "sint64"} ->
           [wire |-> "WireVarint", varint |-> "x", fixed |-> ""]
      [] field.type = "bool" ->
           [wire |-> "WireVarint", varint |-> "", fixed |-> "1"]
      [] field.type \in {"string", "bytes"} ->
           [wire |-> "WireBytes", varint |-> "len(x)", fixed |-> "len(x)"]
      [] field.type = "group" ->
           [wire |-> "WireStartGroup", varint |-> "", fixed |-> Pkg.proto \o ".Size(x)"]
      [] field.type = "message" ->
           [wire |-> "WireBytes", varint |-> "s", fixed |-> "s"]

OneofSizeCase(field) ==
    CASE field.type \in {"double", "fixed64", "sfixed64"} ->
           [wire |-> "WireFixed64", varint |-> "", fixed |-> "8"]
      [] field.type \in {"float", "fixed32", "sfixed32"} ->
           [wire |-> "WireFixed32", varint |-> "", fixed |-> "4"]
      [] field.type \in {"int64", "uint64", "int32", "uint32", "enum"} ->
           [wire |-> "WireVarint", varint |-> "x", fixed |-> ""]
      [] field.type = "bool" ->
           [wire |-> "WireVarint", varint |-> "", fixed |-> "1"]
      [] field.type \in {"string", "bytes"} ->
           [wire |-> "WireBytes", varint |-> "len(x)", fixed |-> "len(x)"]
      [] field.type = "group" ->
           [wire |-> "WireStartGroup", varint |-> "", fixed |-> Pkg.proto \o ".Size(x)"]
      [] field.type = "message" ->
           [wire |-> "WireBytes", varint |-> "s", fixed |-> "s"]
      [] field.type = "sint32" ->
           [wire |-> "WireVarint",
            varint |-> "(uint32(x) << 1) ^ uint32((int32(x) >> 31))", fixed |-> ""]
      [] field.type = "sint64" ->
           [wire |-> "WireVarint",
            varint |-> "uint64(x << 1) ^ uint64((int64(x) >> 63))", fixed |-> ""]


-----------------------------------------------------------------------------
(* goTag, enum constants, default constants and getters *)

isScalar(field) ==
    field.type \in {"double", "float", "int64", "uint64", "int32", "fixed64",
                    "fixed32", "bool", "uint32", "enum", "sfixed32", "sfixed64",
                    "sint32", "sint64"}

\* FieldOptions.GetPacked: false when the option is not given
GetPacked(field) == field.options = "true"

goTagPackedAnySyntax(m, field) ==
    \/ field.options # "nil" /\ GetPacked(field)
    \/ /\ field.options = "nil" \/ field.options = "unset"
       /\ isRepeated(field)
       /\ isScalar(field)

\* the condition under which goTag writes ",packed"
goTagPacked(m, field) ==
    \/ field.options # "nil" /\ GetPacked(field)
    \/ /\ m.proto3
       /\ field.options = "nil" \/ field.options = "unset"
       /\ isRepeated(field)
       /\ isScalar(field)

\* EnumDescriptor.prefix
prefix(enum) ==
    IF Len(enum.typeName) = 1
    THEN Str(CamelCase(enum.typeName[1])) \o "_"
    ELSE Str(CamelCaseSlice(SubSeq(enum.typeName, 1, Len(enum.typeName) - 1))) \o "_"

\* EnumDescriptor.integerValueAsString
integerValueAsString(enum, name) ==
    LET hits == {k \in DOMAIN enum.values : Str(enum.values[k].name) = name}
    IN  IF hits = {} THEN ""
        ELSE ToString(enum.values[CHOOSE k \in hits : \A j \in hits : k <= j].number)

\* FieldDescriptorProto.GetDefaultValue
GetDefaultValue(field) == IF field.default.set THEN field.default.val ELSE ""

\* goTag, as the parts its Sprintf joins.  The checked fields carry no
\* json_name.
goTag(m, field, wiretype) ==
    LET optrepreq == CASE isOptional(field) -> "opt"
                       [] isRequired(field) -> "req"
                       [] isRepeated(field) -> "rep"
                       [] OTHER -> ""
        dv == field.default.val
        defaultValue ==
            IF ~field.default.set THEN ""
            ELSE ",def=" \o
                 (CASE field.type = "bool" -> IF dv = "true" THEN "1" ELSE "0"
                    [] field.type = "enum" -> integerValueAsString(refObj, dv)
                    [] OTHER -> dv)
        enum == IF field.type = "enum"
                THEN ",enum=" \o (IF refObj.protoPkg # "" THEN refObj.protoPkg \o "." ELSE "")
                              \o Str(CamelCaseSlice(refObj.typeName))
                ELSE ""
        packed == IF goTagPacked(m, field) THEN ",packed" ELSE ""
        name == IF field.type = "group"
                THEN Str(refObj.typeName[Len(refObj.typeName)])
                ELSE Str(field.name)
        proto3 == IF m.proto3 /\ field.type = "bytes" THEN ",proto3" ELSE ""
        oneof == IF field.oneofIndex # NoOneof THEN ",oneof" ELSE ""
    IN  [wiretype |-> wiretype, number |-> field.number, optrepreq |-> optrepreq,
         packed |-> packed, name |-> ",name=" \o name \o proto3, enum |-> enum,
         oneof |-> oneof, defaultValue |-> defaultValue]

\* A constant or variable declaration written by g.P, in package pkg
MkDecl(pkg, kind, name, typ, value) ==
    [pkg |-> pkg, kind |-> kind, name |-> name, typ |-> typ, value |-> value]

\* generateEnum: one constant per value, "name ccTypeName = number"
EnumConsts(enum) ==
    [k \in DOMAIN enum.values |->
        MkDecl(enum.pkg, "const ", prefix(enum) \o Str(enum.values[k].name),
               Str(CamelCaseSlice(enum.typeName)), ToString(enum.values[k].number))]

Quote(s) == "\"" \o s \o "\""

\* the name of the default constant of a field
DefaultName(m, field) ==
    "Default_" \o Str(ccTypeName(m)) \o "_" \o Str(CamelCase(field.name))

HasDefNameNever(m, i) == FALSE

\* "Default constants": the fields that get one
HasDefName(m, i) == GetDefaultValue(m.field[i]) # ""

\* "Default constants": the declaration written for field i
DefaultDecl(m, i) ==
    LET field == m.field[i]
        def == GetDefaultValue(field)
        gt == GoType(m, field).typ
        typename == IF gt[1] = "*" THEN Tail(gt) ELSE gt
        tn == Concat(typename)
    IN  CASE tn = "bool" -> MkDecl(packageName, "const ", DefaultName(m, field), tn, def)
          [] tn = "string" ->
               MkDecl(packageName, "const ", DefaultName(m, field), tn, Quote(def))
          [] tn = "[]byte" ->
               MkDecl(packageName, "var ", DefaultName(m, field), tn,
                      "[]byte(" \o Quote(def) \o ")")
          [] def \in {"inf", "-inf", "nan"} ->
               LET e == CASE def = "inf" -> Pkg.math \o ".Inf(1)"
                          [] def = "-inf" -> Pkg.math \o ".Inf(-1)"
                          [] def = "nan" -> Pkg.math \o ".NaN()"
               IN  MkDecl(packageName, "var ", DefaultName(m, field), tn,
                          IF field.type = "float" THEN "float32(" \o e \o ")" ELSE e)
          [] field.type = "enum" ->
               MkDecl(packageName, "const ", DefaultName(m, field), tn,
                      DefaultPackageName(refObj) \o prefix(refObj) \o def)
          [] OTHER -> MkDecl(packageName, "const ", DefaultName(m, field), tn, def)

enumFallbackZero(enum) == "0"

\* what the getter of an enum field without default returns at the end
enumFallback(enum) ==
    IF Len(enum.values) = 0 THEN "0 // empty enum"
    ELSE DefaultPackageName(enum) \o prefix(enum) \o Str(enum.values[1].name)

\* "Field getters": the getter written for field i.
\* fname, mname, uname and tname are the identifiers allocated for it.
Getter(m, i, fname, mname, uname, tname, hasDef) ==
    LET field == m.field[i]
        oneof == field.oneofIndex # NoOneof
        gt == GoType(m, field).typ
        strip == needsStar(field.type) /\ gt[1] = "*"
        typename == Concat(IF strip THEN Tail(gt) ELSE gt)
        star == IF strip THEN "*" ELSE ""
        typeDefaultIsNil ==
            \/ field.type = "bytes" /\ ~hasDef
            \/ field.type \in {"group", "message"}
            \/ isRepeated(field)
        def == DefaultName(m, field)
        last ==
            IF hasDef
            THEN IF field.type # "bytes" THEN def
                 ELSE "append([]byte(nil), " \o def \o "...)"
            ELSE CASE field.type = "bool" -> "false"
                   [] field.type = "string" -> "\"\""
                   [] field.type \in {"group", "message", "bytes"} -> "nil"
                   [] field.type = "enum" -> enumFallback(refObj)
                   [] OTHER -> "0"
    IN  IF typeDefaultIsNil /\ ~oneof
        THEN [mname |-> Str(mname), typename |-> typename, cond |-> "m != nil",
              value |-> "m." \o Str(fname), fallback |-> "nil"]
        ELSE IF ~oneof
        THEN [mname |-> Str(mname), typename |-> typename,
              cond |-> IF m.proto3 THEN "m != nil"
                       ELSE "m != nil && m." \o Str(fname) \o " != nil",
              value |-> star \o "m." \o Str(fname), fallback |-> last]
        ELSE [mname |-> Str(mname), typename |-> typename,
              cond |-> "x, ok := m.Get" \o Str(uname) \o "().(*" \o Str(tname) \o "); ok",
              value |-> "x." \o Str(fname), fallback |-> last]

\* whether the getter of field i is put in the exported getters
exportGetter(type, objPkg, msgPkg) ==
    CASE type = "group" -> FALSE
      [] type \in {"message", "enum"} -> objPkg = msgPkg
      [] OTHER -> TRUE

GetterExported(m, i) == exportGetter(m.field[i].type, refObj.pkg, packageName)

-----------------------------------------------------------------------------
(* The generated oneof functions at run time *)

\* Go values.  A number (a float by its bits) is its word, a string or a
\* []byte its bytes, a message pointer nil or the wire body of the message.
GoVal(kind, word, truth, bytes) ==
    [kind |-> kind, word |-> word, truth |-> truth, bytes |-> bytes]

NumVal(w) == GoVal("num", w, FALSE, <<>>)

BoolVal(t) == GoVal("bool", {}, t, <<>>)

BytesVal(b) == GoVal("bytes", {}, FALSE, b)

MsgNil == GoVal("nil", {}, FALSE, <<>>)

MsgOf(body) == GoVal("msg", {}, FALSE, body)

NilVariant == [wrapper |-> <<>>, value |-> GoVal("none", {}, FALSE, <<>>)]

Words32 == { {}, {0}, {7}, 0..31, {31}, 0..30 }

Words64 == { {}, {0}, {7}, 0..63, {63}, {35} }

LongBytes == [i \in 1..128 |-> {0, 6}]

BytesPool == { <<>>, <<{0, 5}>>, LongBytes }

\* the body "field 1, varint, value 1"
SmallBody == <<{3}, {0}>>

\* The Go type a field's value is made of: an enum type is declared
\* "type E int32", a message or group field holds a pointer.
Underlying(field) ==
    CASE field.type = "enum" -> "int32"
      [] field.type \in {"message", "group"} -> "pointer"
      [] field.type = "double" -> "float64"
      [] field.type = "float" -> "float32"
      [] field.type \in {"int64", "sfixed64", "sint64"} -> "int64"
      [] field.type \in {"uint64", "fixed64"} -> "uint64"
      [] field.type \in {"int32", "sfixed32", "sint32"} -> "int32"
      [] field.type \in {"uint32", "fixed32"} -> "uint32"
      [] field.type = "bool" -> "bool"
      [] field.type = "string" -> "string"
      [] field.type = "bytes" -> "[]byte"

ValuePool(under) ==
    CASE under \in {"float64", "int64", "uint64"} -> {NumVal(w) : w \in Words64}
      [] under \in {"float32", "int32", "uint32"} -> {NumVal(w) : w \in Words32}
      [] under = "bool" -> {BoolVal(t) : t \in BOOLEAN}
      [] under \in {"string", "[]byte"} -> {BytesVal(b) : b \in BytesPool}
      [] under = "pointer" -> {MsgNil, MsgOf(<<>>), MsgOf(SmallBody)}

\* uint64(x) for x of a type made of under
ToUint64(under, v) == IF under = "int32" THEN SignExtend32(v.word) ELSE v.word

\* number<<3 | wire
TagWord(number, wire) == Shl(NatWord(number), 3, 64) \cup NatWord(WireCode[wire])

\* Buffer.Marshal and Buffer.EncodeMessage fail on a nil message
MarshalErr(v) == IF v.kind = "nil" THEN "ErrNil" ELSE "nil"

\* proto.Size
ProtoSize(v) == Len(v.bytes)

\* pre + val + post of a marshaler case, run on value v: the bytes appended
EncPayload(c, v) ==
    CASE c.pre = "b.EncodeFixed64(" \o Pkg.math \o ".Float64bits(" -> EncodeFixed(v.word, 8)
      [] c.pre = "b.EncodeFixed32(uint64(" \o Pkg.math \o ".Float32bits(" -> EncodeFixed(v.word, 4)
      [] c.pre = "b.EncodeVarint(uint64(" -> EncodeVarint(ToUint64(c.under, v))
      [] c.pre = "b.EncodeFixed64(uint64(" -> EncodeFixed(ToUint64(c.under, v), 8)
      [] c.pre = "b.EncodeFixed32(uint64(" -> EncodeFixed(ToUint64(c.under, v), 4)
      [] c.pre = "b.EncodeVarint(" -> EncodeVarint(IF v.truth THEN {0} ELSE {})
      [] c.pre = "b.EncodeStringBytes(" -> EncodeRawBytes(v.bytes)
      [] c.pre = "b.EncodeRawBytes(" -> EncodeRawBytes(v.bytes)
      [] c.pre = "b.Marshal(" -> v.bytes
      [] c.pre = "b.EncodeMessage(" -> EncodeRawBytes(v.bytes)
      [] c.pre = "b.EncodeZigzag32(uint64(" -> EncodeZigzag32(ToUint64(c.under, v))
      [] c.pre = "b.EncodeZigzag64(uint64(" -> EncodeZigzag64(ToUint64(c.under, v))

\* One case of the marshaler on value v: [buf, err]
RunEncCase(c, v) ==
    LET tag == EncodeVarint(TagWord(c.number, c.wire))
    IN  IF c.canFail /\ MarshalErr(v) # "nil"
        THEN [buf |-> tag, err |-> MarshalErr(v)]
        ELSE [buf |-> tag \o EncPayload(c, v)
                        \o (IF c.group THEN EncodeVarint(TagWord(c.number, "WireEndGroup"))
                            ELSE <<>>),
              err |-> "nil"]

\* The type switch of one group: the first case of that wrapper type.
CaseOf(cases, x) ==
    LET hits == {k \in DOMAIN cases : cases[k].tname = x.wrapper}
    IN  IF hits = {} THEN 0 ELSE CHOOSE k \in hits : \A j \in hits : k <= j

\* _M_OneofMarshaler: groups in declaration order, stops at the first error
RECURSIVE RunMarshaler(_, _, _, _)
RunMarshaler(enc, m, oi, out) ==
    IF oi > Len(enc) THEN [buf |-> out, err |-> "nil"]
    ELSE LET x == m[oi - 1]
             k == CaseOf(enc[oi], x)
         IN  IF x = NilVariant THEN RunMarshaler(enc, m, oi + 1, out)
             ELSE IF k = 0 THEN [buf |-> out, err |-> "unexpected type"]
             ELSE LET r == RunEncCase(enc[oi][k], x.value)
                  IN  IF r.err # "nil" THEN [buf |-> out \o r.buf, err |-> r.err]
                      ELSE RunMarshaler(enc, m, oi + 1, out \o r.buf)

\* the word whose size the sizer's varint expression takes: uint64(expr)
SizeVarintArg(c, v) ==
    CASE c.varint = "x" -> ToUint64(c.under, v)
      [] c.varint = "len(x)" -> NatWord(Len(v.bytes))
      [] c.varint = "s" -> NatWord(ProtoSize(v))
      [] c.varint = "(uint32(x) << 1) ^ uint32((int32(x) >> 31))" ->
           Xor(Shl(Trunc32(v.word), 1, 32), Sar(Trunc32(v.word), 31, 32))
      [] c.varint = "uint64(x << 1) ^ uint64((int64(x) >> 63))" ->
           Xor(Shl(v.word, 1, 64), Sar(v.word, 63, 64))

SizeFixedArg(c, v) ==
    CASE c.fixed = "8" -> 8
      [] c.fixed = "4" -> 4
      [] c.fixed = "1" -> 1
      [] c.fixed = "len(x)" -> Len(v.bytes)
      [] c.fixed = Pkg.proto \o ".Size(x)" -> ProtoSize(v)
      [] c.fixed = "s" -> ProtoSize(v)

\* One case of the sizer on value v
RunSizeCase(c, v) ==
    SizeVarint(TagWord(c.number, c.wire))
      + (IF c.varint # "" THEN SizeVarint(SizeVarintArg(c, v)) ELSE 0)
      + (IF c.fixed # "" THEN SizeFixedArg(c, v) ELSE 0)
      + (IF c.group THEN SizeVarint(TagWord(c.number, "WireEndGroup")) ELSE 0)

\* _M_OneofSizer
RECURSIVE RunSizer(_, _, _)
RunSizer(size, m, oi) ==
    IF oi > Len(size) THEN 0
    ELSE LET x == m[oi - 1]
             k == CaseOf(size[oi], x)
         IN  (IF x = NilVariant \/ k = 0 THEN 0 ELSE RunSizeCase(size[oi][k], x.value))
               + RunSizer(size, m, oi + 1)

\* Buffer.DecodeGroup: fields up to the end-group tag; the bodies checked
\* hold varint fields only.  [x (the body), rest, err]
RECURSIVE DecodeGroupFrom(_, _)
DecodeGroupFrom(buf, body) ==
    LET t == DecodeVarint(buf)
    IN  IF t.err # "nil" THEN [x |-> body, rest |-> buf, err |-> t.err]
        ELSE IF t.x \cap (0..2) = NatWord(WireCode.WireEndGroup)
        THEN [x |-> body, rest |-> t.rest, err |-> "nil"]
        ELSE IF t.x \cap (0..2) = NatWord(WireCode.WireVarint)
        THEN LET v == DecodeVarint(t.rest)
             IN  IF v.err # "nil" THEN [x |-> body, rest |-> buf, err |-> v.err]
                 ELSE DecodeGroupFrom(v.rest,
                        body \o SubSeq(buf, 1, Len(buf) - Len(v.rest)))
        ELSE [x |-> body, rest |-> buf, err |-> "ErrInternalBadWireType"]

\* the dec expression of an unmarshaler case on buf: [x, rest, err]
RunDec(c, buf) ==
    CASE c.dec = "b.DecodeFixed64()" -> DecodeFixed(buf, 8)
      [] c.dec = "b.DecodeFixed32()" -> DecodeFixed(buf, 4)
      [] c.dec = "b.DecodeVarint()" -> DecodeVarint(buf)
      [] c.dec = "b.DecodeStringBytes()" -> DecodeRawBytes(buf)
      [] c.dec = "b.DecodeRawBytes(true)" -> DecodeRawBytes(buf)
      [] c.dec = "b.DecodeZigzag32()" -> DecodeZigzag32(buf)
      [] c.dec = "b.DecodeZigzag64()" -> DecodeZigzag64(buf)
      [] c.dec = "b.DecodeMessage(msg)" ->
           LET r == DecodeRawBytes(buf) IN [r EXCEPT !.x = MsgOf(r.x)]
      [] c.dec = "b.DecodeGroup(msg)" ->
           LET r == DecodeGroupFrom(buf, <<>>)
           IN  IF r.err = "nil" THEN [r EXCEPT !.x = MsgOf(r.x)]
               ELSE [r EXCEPT !.x = MsgOf(<<>>)]

ApplyCastNone(cast, x) == x

\* a Go conversion applied to a decoded word
ApplyCast(cast, x) ==
    IF cast \in {"uint32", "int32"} \/ (refObj.kind = "enum" /\ cast = TypeName(refObj))
    THEN Trunc32(x) ELSE x

\* the value expression of an unmarshaler case
DecValue(c, x) ==
    CASE c.val = "x != 0" -> BoolVal(x # {})
      [] c.val = "msg" -> x
      [] c.dec \in {"b.DecodeStringBytes()", "b.DecodeRawBytes(true)"} -> BytesVal(x)
      [] OTHER -> NumVal(ApplyCast(c.cast2, ApplyCast(c.cast, x)))

\* _M_OneofUnmarshaler(msg, tag, wire, b): [m, handled, err, rest]
RunUnmarshalerNoWireCheck(dec, m, tag, wire, buf) ==
    LET hits == {k \in DOMAIN dec : NatWord(dec[k].number) = tag}
    IN  IF hits = {} THEN [m |-> m, handled |-> FALSE, err |-> "nil", rest |-> buf]
        ELSE LET c == dec[CHOOSE k \in hits : \A j \in hits : k <= j]
                 r == RunDec(c, buf)
             IN  [m |-> [m EXCEPT ![c.oneofIndex] =
                           [wrapper |-> c.tname, value |-> DecValue(c, r.x)]],
                  handled |-> TRUE, err |-> r.err, rest |-> r.rest]

RunUnmarshaler(dec, m, tag, wire, buf) ==
    LET hits == {k \in DOMAIN dec : NatWord(dec[k].number) = tag}
    IN  IF hits = {} THEN [m |-> m, handled |-> FALSE, err |-> "nil", rest |-> buf]
        ELSE LET c == dec[CHOOSE k \in hits : \A j \in hits : k <= j]
             IN  IF wire # NatWord(WireCode[c.wire])
                 THEN [m |-> m, handled |-> TRUE, err |-> "ErrInternalBadWireType",
                       rest |-> buf]
                 ELSE LET r == RunDec(c, buf)
                      IN  [m |-> [m EXCEPT ![c.oneofIndex] =
                                    [wrapper |-> c.tname, value |-> DecValue(c, r.x)]],
                           handled |-> TRUE, err |-> r.err, rest |-> r.rest]


NoFuncs == [enc |-> <<>>, dec |-> <<>>, size |-> <<>>]

NoCall ==
    [called |-> FALSE, count |-> 0, tag |-> {}, wire |-> {}, handled |-> FALSE,
     err |-> "nil", before |-> <<>>, bufBefore |-> <<>>]

\* Nothing generated yet for the run-time functions, nothing running.
IdleCodec ==
    /\ oneofFuncs = NoFuncs
    /\ origin = "none"
    /\ src = <<>>
    /\ wireOut = <<>>
    /\ encErr = "nil"
    /\ sizerN = 0
    /\ dst = <<>>
    /\ wireIn = <<>>
    /\ rpc = "idle"
    /\ ret = NoCall


\* SetPackageNames has run for one file of package pb without dependencies.
PackagesSet ==
    /\ allFiles = <<>>
    /\ genFiles = <<>>
    /\ PackageImportPath = <<>>
    /\ pkgNamesInUse = { <<"p","b">>, <<"f","m","t">>, <<"m","a","t","h">>,
                         <<"p","r","o","t","o">> }
    /\ uniquePackageName = <<>>
    /\ packageName = "pb"
    /\ Pkg = [fmt |-> "fmt", math |-> "math", proto |-> "proto"]
    /\ ppc = "done"
    /\ regLog = <<>>
    /\ run = 1
    /\ firstRun = <<>>

\* No request is being wrapped.
NoTypes ==
    /\ Request = [protoFile |-> <<>>, fileToGenerate |-> <<>>]
    /\ fileDesc = <<>>
    /\ fileEnum = <<>>
    /\ fileImp = <<>>
    /\ fileExported = <<>>
    /\ typeNameToObject = <<>>
    /\ gfile = 0
    /\ usedPackages = {}
    /\ written = <<>>
    /\ Buffer = <<>>
    /\ ginit = <<>>
    /\ Response = <<>>
    /\ warnings = <<>>
    /\ tpc = "idle"

\* One line of g.Buffer, written by one call of g.P
MkLine(kind, oi, name) == [kind |-> kind, oi |-> oi, name |-> name]

\* generateMessage has written "type T struct {" and nothing else.
NothingGenerated ==
    /\ fi = 1
    /\ usedNames = methodNames
    /\ fieldNames = <<>>
    /\ fieldGetterNames = <<>>
    /\ oneofFieldName = [oi \in 0..(Len(message.oneofDecl) - 1) |-> <<>>]
    /\ oneofDisc = [oi \in 0..(Len(message.oneofDecl) - 1) |-> <<>>]
    /\ oneofTypeName = <<>>
    /\ allocLog = <<>>
    /\ emitted = <<>>
    /\ buffer = << MkLine("type", NoOneof, ccTypeName(message)) >>
    /\ oneofInsertPoints = <<>>
    /\ goTags = <<>>
    /\ defNames = <<>>
    /\ decls = <<>>
    /\ getterBody = <<>>
    /\ getters = <<>>

InitNames ==
    /\ \E tn \in TypeNamePool, od \in OneofDeclPool, ne \in NestedPool,
          en \in EnumsPool, names \in FieldNameSeqs :
          \E oi \in [DOMAIN names -> {NoOneof} \cup (0..(Len(od) - 1))] :
             /\ message = MkMessage(tn,
                                     [i \in DOMAIN names |->
                                        MkField(names[i], i, "int32", "optional",
                                                oi[i], NoDefault, "nil")],
                                     od, ne, en, FALSE)
             /\ ScopeOk(message)
    /\ pc = "fields"
    /\ refObj = NoObject
    /\ gfileEnum = <<>>
    /\ NothingGenerated
    /\ IdleCodec
    /\ PackagesSet
    /\ NoTypes

\* One iteration of "for i, field := range message.Field".
GenField ==
    /\ pc = "fields"
    /\ fi <= Len(message.field)
    /\ LET field  == message.field[fi]
           base   == CamelCase(field.name)
           ns     == allocNames(usedNames, <<base, GetPrefix \o base>>)
           used1  == usedNames \cup Range(ns)
           oneof  == field.oneofIndex # NoOneof
           first  == oneof /\ oneofFieldName[field.oneofIndex] = <<>>
           odp    == message.oneofDecl[field.oneofIndex + 1]
           fns    == allocNames(used1, <<CamelCase(odp)>>)
           fname  == fns[1]
           log1   == Append(allocLog,
                       [cand |-> <<base, GetPrefix \o base>>, got |-> ns])
       IN  /\ fieldNames' = Append(fieldNames, ns[1])
           /\ fieldGetterNames' = Append(fieldGetterNames, ns[2])
           /\ IF first
              THEN /\ usedNames' = used1 \cup Range(fns)
                   /\ oneofFieldName' = [oneofFieldName EXCEPT ![field.oneofIndex] = fname]
                   /\ oneofDisc' = [oneofDisc EXCEPT ![field.oneofIndex] =
                                       IsPrefix \o ccTypeName(message) \o <<"_">> \o fname]
                   /\ allocLog' = Append(log1,
                                    [cand |-> <<CamelCase(odp)>>, got |-> fns])
                   /\ oneofInsertPoints' =
                        (field.oneofIndex :> (Len(buffer) + 1)) @@ oneofInsertPoints
                   /\ buffer' = buffer \o << MkLine("header", field.oneofIndex, fname),
                                             MkLine("union", field.oneofIndex, fname) >>
              ELSE /\ usedNames' = used1
                   /\ allocLog' = log1
                   /\ buffer' = IF oneof THEN buffer
                                ELSE Append(buffer, MkLine("field", NoOneof, ns[1]))
                   /\ UNCHANGED <<oneofFieldName, oneofDisc, oneofInsertPoints>>
           /\ oneofTypeName' =
                  Append(oneofTypeName,
                         IF oneof
                         THEN oneofTname(message, ccTypeName(message) \o <<"_">> \o ns[1])
                         ELSE <<>>)
    /\ goTags' = Append(goTags, goTag(message, message.field[fi],
                                       GoType(message, message.field[fi]).wire))
    /\ fi' = fi + 1
    /\ UNCHANGED <<message, pc, emitted, refObj, gfileEnum, defNames, decls, getterBody,
                   getters>>
    /\ UNCHANGED <<codecVars, pkgVars>>
    /\ UNCHANGED typeVars

OneofFields(m) == {i \in DOMAIN m.field : m.field[i].oneofIndex # NoOneof}

\* f mapped over the elements of set S taken in increasing order
RECURSIVE SeqOfSet(_)
SeqOfSet(S) ==
    IF S = {} THEN <<>>
    ELSE LET x == CHOOSE y \in S : \A z \in S : y <= z
         IN  <<x>> \o SeqOfSet(S \ {x})

\* "fieldWire[field] = wire", by field index
fieldWire(m) == [i \in OneofFields(m) |-> OneofEncCase(m.field[i]).wire]

\* The fields of oneof oi, in field order
MembersOf(m, oi) == SeqOfSet({i \in DOMAIN m.field : m.field[i].oneofIndex = oi})

\* the end of the struct: "XXX_unrecognized []byte" (proto2) and "}"
structEnd(m) ==
    (IF m.proto3 THEN <<>> ELSE << MkLine("field", NoOneof, <<"X","X","X">>) >>)
        \o << MkLine("close", NoOneof, <<>>) >>

\* "//\t*" + oneofTypeName[field] for the fields of oneof oi
oneofTypeLines(oi) ==
    LET ms == MembersOf(message, oi)
    IN  [j \in DOMAIN ms |-> MkLine("wrapper", oi, oneofTypeName[ms[j]])]

\* "Update g.Buffer to list valid oneof types": the rounds of the loop from
\* oi down to 0.  A missing entry of the map oneofInsertPoints reads as 0.
\* Offsets count lines.
RECURSIVE insertOneofTypes(_, _)
insertOneofTypes(all, oi) ==
    IF oi < 0 THEN all
    ELSE LET ip == IF oi \in DOMAIN oneofInsertPoints THEN oneofInsertPoints[oi] ELSE 0
         IN  insertOneofTypes(SubSeq(all, 1, ip) \o oneofTypeLines(oi)
                                  \o SubSeq(all, ip + 1, Len(all)),
                              oi - 1)

\* What generateMessage writes after the field loop: the end of the struct
\* and the lists of oneof types, the default constants, the oneof types,
\* the getters and the oneof functions.
GenDeclarations ==
    /\ pc = "fields"
    /\ fi > Len(message.field)
    /\ LET nOneof == Len(message.oneofDecl)
           fields == DOMAIN message.field
           withDef == {i \in fields : HasDefName(message, i)}
           defs == SeqOfSet(withDef)
           ois  == SeqOfSet(DOMAIN oneofDisc)
           ofs  == SeqOfSet(OneofFields(message))
           ifaces == [k \in DOMAIN ois |->
                        [kind |-> "interface", name |-> oneofDisc[ois[k]], on |-> <<>>]]
           structs == [k \in DOMAIN ofs |->
                        [kind |-> "struct", name |-> oneofTypeName[ofs[k]],
                         on |-> fieldNames[ofs[k]]]]
           meths == [k \in DOMAIN ofs |->
                        [kind |-> "method",
                         name |-> oneofDisc[message.field[ofs[k]].oneofIndex],
                         on |-> oneofTypeName[ofs[k]]]]
           accs == [k \in DOMAIN ois |->
                        [kind |-> "method",
                         name |-> GetPrefix \o oneofFieldName[ois[k]],
                         on |-> ccTypeName(message)]]
           uname(i) == IF message.field[i].oneofIndex = NoOneof THEN <<>>
                       ELSE oneofFieldName[message.field[i].oneofIndex]
           exported == SeqOfSet({i \in fields : GetterExported(message, i)})
           encCase(i) ==
               LET field == message.field[i]
                   c == OneofEncCase(field)
               IN  [tname |-> oneofTypeName[i], under |-> Underlying(field),
                    number |-> field.number, wire |-> c.wire, pre |-> c.pre,
                    canFail |-> c.canFail, group |-> field.type = "group"]
           decCase(i) ==
               LET field == message.field[i]
                   c == OneofDecCase(Concat(GoType(message, field).typ), field)
               IN  [number |-> field.number, wire |-> fieldWire(message)[i],
                    dec |-> c.dec, cast |-> c.cast, cast2 |-> c.cast2,
                    val |-> OneofDecVal(field), oneofIndex |-> field.oneofIndex,
                    tname |-> oneofTypeName[i]]
           sizeCase(i) ==
               LET field == message.field[i]
                   c == OneofSizeCase(field)
               IN  [tname |-> oneofTypeName[i], under |-> Underlying(field),
                    number |-> field.number, wire |-> c.wire, varint |-> c.varint,
                    fixed |-> c.fixed, group |-> field.type = "group"]
       IN  /\ defNames' = [i \in withDef |-> DefaultName(message, message.field[i])]
           /\ decls' = decls \o [k \in DOMAIN defs |-> DefaultDecl(message, defs[k])]
           /\ emitted' = emitted \o ifaces \o structs \o meths \o accs
           /\ buffer' = insertOneofTypes(buffer \o structEnd(message), nOneof)
           /\ getterBody' = [i \in fields |->
                               Getter(message, i, fieldNames[i], fieldGetterNames[i],
                                      uname(i), oneofTypeName[i], i \in withDef)]
           /\ getters' = [k \in DOMAIN exported |-> getterBody'[exported[k]].mname]
           /\ oneofFuncs' =
                IF nOneof > 0
                THEN [enc  |-> [k \in 1..nOneof |->
                                  LET ms == MembersOf(message, k - 1)
                                  IN  [j \in DOMAIN ms |-> encCase(ms[j])]],
                      dec  |-> [j \in DOMAIN ofs |-> decCase(ofs[j])],
                      size |-> [k \in 1..nOneof |->
                                  LET ms == MembersOf(message, k - 1)
                                  IN  [j \in DOMAIN ms |-> sizeCase(ms[j])]]]
                ELSE oneofFuncs
    /\ pc' = "done"
    /\ UNCHANGED <<message, fi, usedNames, fieldNames, fieldGetterNames,
                   oneofFieldName, oneofDisc, oneofTypeName, allocLog,
                   oneofInsertPoints>>
    /\ UNCHANGED <<refObj, gfileEnum, goTags, origin, src, wireOut, encErr, sizerN, dst, wireIn,
                   rpc, ret, pkgVars>>
    /\ UNCHANGED typeVars

NextNames == GenField \/ GenDeclarations

SpecNames == InitNames /\ [][NextNames]_vars

-----------------------------------------------------------------------------
(* Claims about identifier allocation *)

\* The identifiers allocNames has handed out so far, in allocation order
\* per kind: field identifiers, getter identifiers, union-field identifiers.
AllocatedOneofs == {oi \in DOMAIN oneofFieldName : oneofFieldName[oi] # <<>>}

AllocatedIds ==
    LET os == SeqOfSet(AllocatedOneofs)
    IN  fieldNames \o fieldGetterNames \o [k \in DOMAIN os |-> oneofFieldName[os[k]]]

\* C1: the identifiers handed out by allocNames for one message (field,
\* getter and oneof union-field identifiers) are pairwise distinct and none
\* of them is a reserved method name.
C1_IdentifiersDistinct ==
    LET ids == AllocatedIds IN
    /\ \A i, j \in DOMAIN ids : i # j => ids[i] # ids[j]
    /\ \A i \in DOMAIN ids : ids[i] \notin methodNames

\* A finished message in which two declared field names CamelCase to the
\* same string, one CamelCases to a reserved name and a oneof was allocated.
C1_Witness ==
    /\ pc = "done"
    /\ \E i, j \in DOMAIN message.field :
          i # j /\ CamelCase(message.field[i].name) = CamelCase(message.field[j].name)
    /\ \E i \in DOMAIN message.field : CamelCase(message.field[i].name) \in methodNames
    /\ AllocatedOneofs # {}

\* The names in use when batch n of the log was allocated.
UsedBefore(n) ==
    methodNames \cup UNION { Range(allocLog[j].got) : j \in 1..(n - 1) }

SuffixedBy(cand, k) == [i \in DOMAIN cand |-> cand[i] \o Underscores(k)]

\* The number of underscores batch n received.
BatchK(n) == Len(allocLog[n].got[1]) - Len(allocLog[n].cand[1])

\* C2: every batch gets the same number k of underscores on each of its
\* candidates, k is the least number for which no candidate of the batch is
\* in use, and so each getter identifier is "Get" + the field identifier.
C2_UniformLeastSuffix ==
    /\ \A n \in DOMAIN allocLog :
          LET k      == BatchK(n)
              before == UsedBefore(n)
              cand   == allocLog[n].cand
              got    == allocLog[n].got
          IN  /\ k >= 0
              /\ got = SuffixedBy(cand, k)
              /\ \A i \in DOMAIN got : got[i] \notin before
              /\ \A j \in 0..(k - 1) :
                    \E i \in DOMAIN cand : cand[i] \o Underscores(j) \in before
    /\ \A f \in DOMAIN fieldNames : fieldGetterNames[f] = GetPrefix \o fieldNames[f]

\* A batch that needed two underscores although its first candidate was
\* free as declared: the collision came from the getter candidate.
C2_Witness ==
    \E n \in DOMAIN allocLog :
       /\ Len(allocLog[n].cand) = 2
       /\ BatchK(n) = 2
       /\ allocLog[n].cand[1] \notin UsedBefore(n)

\* CamelCased type names of the messages and enums nested directly in m.
NestedCCNames(m) ==
    {CamelCaseSlice(NestedTypeName(m, m.nested[i])) : i \in DOMAIN m.nested}
        \cup {CamelCaseSlice(NestedTypeName(m, m.enums[i])) : i \in DOMAIN m.enums}

WrapperBase(f) == ccTypeName(message) \o <<"_">> \o fieldNames[f]

WrapperK(f) == Len(oneofTypeName[f]) - Len(WrapperBase(f))

ProcessedOneofFields == {f \in DOMAIN oneofTypeName : message.field[f].oneofIndex # NoOneof}

\* C3: the wrapper type name of a oneof member field is the message's
\* CamelCased type name + "_" + the field identifier + the least number of
\* underscores that makes it differ from every directly nested type name.
C3_WrapperLeastSuffix ==
    \A f \in ProcessedOneofFields :
       LET k      == WrapperK(f)
           base   == WrapperBase(f)
           nested == NestedCCNames(message)
       IN  /\ k >= 0
           /\ oneofTypeName[f] = base \o Underscores(k)
           /\ oneofTypeName[f] \notin nested
           /\ \A j \in 0..(k - 1) : base \o Underscores(j) \in nested

\* A wrapper that needed two underscores, one against a nested message and
\* one against a nested enum.
C3_Witness ==
    \E f \in ProcessedOneofFields : WrapperK(f) = 2

EveryGroupHasMember(m) ==
    \A oi \in 0..(Len(m.oneofDecl) - 1) :
       \E i \in DOMAIN m.field : m.field[i].oneofIndex = oi

Decls(kind, name) ==
    {k \in DOMAIN emitted : emitted[k].kind = kind /\ emitted[k].name = name}

\* C4: when every declared group has a member, there is exactly one
\* discriminator interface per group and exactly one wrapper type per member
\* field, a wrapper implements the discriminator of its own group only, and
\* two member fields never share a wrapper type name.
C4_OneWrapperPerMember ==
    (pc = "done" /\ EveryGroupHasMember(message)) =>
       /\ \A oi \in DOMAIN oneofDisc :
             Cardinality(Decls("interface", oneofDisc[oi])) = 1
       /\ \A f \in OneofFields(message) :
             /\ Cardinality(Decls("struct", oneofTypeName[f])) = 1
             /\ \A k \in DOMAIN emitted :
                   (emitted[k].kind = "method" /\ emitted[k].on = oneofTypeName[f])
                      => emitted[k].name = oneofDisc[message.field[f].oneofIndex]
       /\ \A f, g \in OneofFields(message) :
             f # g => oneofTypeName[f] # oneofTypeName[g]


-----------------------------------------------------------------------------
(* Using the generated oneof functions *)

\* Field numbers of the four fields of the message used at run time
NumberPool == { <<1, 2, 3, 4>>, <<16, 2047, 536870911, 15>> }

OneofNames == << <<"u">>, <<"v">> >>

CodecFieldNames == << <<"a">>, <<"b">>, <<"c">>, <<"d">> >>

\* message M { oneof u { K1 a; K2 b; }  oneof v { bool c; }  int32 d; }
\* with K1, K2 neighbours in Kinds.
CodecMessage(k, nums) ==
    LET k2 == (k % Len(Kinds)) + 1
    IN  MkMessage(<< <<"M">> >>,
                  << MkField(CodecFieldNames[1], nums[1], Kinds[k], "optional", 0, NoDefault, "nil"),
                     MkField(CodecFieldNames[2], nums[2], Kinds[k2], "optional", 0, NoDefault, "nil"),
                     MkField(CodecFieldNames[3], nums[3], "bool", "optional", 1, NoDefault, "nil"),
                     MkField(CodecFieldNames[4], nums[4], "int32", "optional", NoOneof, NoDefault, "nil") >>,
                  OneofNames, <<>>, <<>>, FALSE)

\* The enum E and the message T of the same package
ObjectE == MkObject("enum", "pb", "my.pkg", << <<"E">> >>,
                    << MkValue(<<"F","I","R","S","T">>, 3),
                       MkValue(<<"S","E","C","O","N","D">>, 5) >>)

ObjectT == MkObject("message", "pb", "my.pkg", << <<"T">> >>, <<>>)

\* what the type names of the fields of m resolve to
ObjectFor(m) ==
    IF \E i \in DOMAIN m.field : m.field[i].type = "enum" THEN ObjectE
    ELSE IF \E i \in DOMAIN m.field : m.field[i].type \in {"message", "group"} THEN ObjectT
    ELSE NoObject

InitOneof ==
    /\ \E k \in DOMAIN Kinds, nums \in NumberPool : message = CodecMessage(k, nums)
    /\ pc = "fields"
    /\ refObj = ObjectFor(message)
    /\ gfileEnum = <<>>
    /\ NothingGenerated
    /\ IdleCodec
    /\ PackagesSet
    /\ NoTypes

\* The values a oneof group of the generated struct can hold
Variants(oi) ==
    {NilVariant} \cup
    UNION { { [wrapper |-> c.tname, value |-> v] : v \in ValuePool(c.under) } :
            c \in Range(oneofFuncs.enc[oi + 1]) }

Messages == [0..(Len(oneofFuncs.enc) - 1) -> UNION {Variants(oi) : oi \in 0..(Len(oneofFuncs.enc) - 1)}]

GoodMessage(m) == \A oi \in DOMAIN m : m[oi] \in Variants(oi)

Fresh == [oi \in 0..(Len(oneofFuncs.enc) - 1) |-> NilVariant]

\* A message whose groups all hold their last member
Preset ==
    [oi \in 0..(Len(oneofFuncs.enc) - 1) |->
        LET cs == oneofFuncs.enc[oi + 1]
            c == cs[Len(cs)]
        IN  [wrapper |-> c.tname,
             value |-> CHOOSE v \in ValuePool(c.under) :
                          v.word # {} \/ v.truth \/ v.bytes # <<>>]]

\* The program builds a message and a destination to decode into.
Build ==
    /\ pc = "done"
    /\ oneofFuncs # NoFuncs
    /\ rpc = "idle"
    /\ \E m \in Messages : GoodMessage(m) /\ src' = m
    /\ \E d \in {Fresh, Preset} : dst' = d
    /\ origin' = "marshal"
    /\ rpc' = "built"
    /\ UNCHANGED <<nameVars, fieldVars, pkgVars, oneofFuncs, wireOut, encErr, sizerN, wireIn, ret>>
    /\ UNCHANGED typeVars

\* proto.Marshal and proto.Size reach the oneof marshaler and sizer;
\* the bytes are then handed to proto.Unmarshal.
Marshal ==
    /\ rpc = "built"
    /\ LET r == RunMarshaler(oneofFuncs.enc, src, 1, <<>>)
       IN  /\ wireOut' = r.buf
           /\ encErr' = r.err
           /\ wireIn' = r.buf
           /\ rpc' = IF r.err # "nil" \/ r.buf = <<>> THEN "done" ELSE "decoding"
    /\ sizerN' = RunSizer(oneofFuncs.size, src, 1)
    /\ UNCHANGED <<nameVars, fieldVars, pkgVars, oneofFuncs, origin, src, dst, ret>>
    /\ UNCHANGED typeVars

ForeignTags == {1, 2, 3, 4, 5, 16, 2047, 536870911}

ForeignWires == 0..7

ForeignPayloads ==
    { <<>>, <<{0}>>, <<{7}>>, <<{0}, {0}, {0}, {0}>>, <<{1}, {3}, {0}>>,
      <<{0}, {0}, {0}, {0}, {0}, {0}, {0}, {0}>> }

\* Bytes arriving from elsewhere: one key and some payload.
Receive ==
    /\ pc = "done"
    /\ oneofFuncs # NoFuncs
    /\ rpc = "idle"
    /\ \E t \in ForeignTags, w \in ForeignWires, p \in ForeignPayloads :
          wireIn' = EncodeVarint(Shl(NatWord(t), 3, 64) \cup NatWord(w)) \o p
    /\ \E d \in {Fresh, Preset} : dst' = d
    /\ origin' = "wire"
    /\ rpc' = "decoding"
    /\ UNCHANGED <<nameVars, fieldVars, pkgVars, oneofFuncs, src, wireOut, encErr, sizerN, ret>>
    /\ UNCHANGED typeVars

\* One round of the decoding loop: read a key, call the oneof unmarshaler.
Unmarshal ==
    /\ rpc = "decoding"
    /\ LET key == DecodeVarint(wireIn)
           tag == Shr(key.x, 3)
           wire == key.x \cap (0..2)
           r == RunUnmarshaler(oneofFuncs.dec, dst, tag, wire, key.rest)
       IN  IF key.err # "nil"
           THEN /\ rpc' = "done"
                /\ UNCHANGED <<dst, wireIn, ret>>
           ELSE /\ dst' = r.m
                /\ wireIn' = r.rest
                /\ ret' = [called |-> TRUE, count |-> ret.count + 1, tag |-> tag,
                           wire |-> wire, handled |-> r.handled, err |-> r.err,
                           before |-> dst, bufBefore |-> key.rest]
                /\ rpc' = IF r.err # "nil" \/ ~r.handled \/ r.rest = <<>>
                          THEN "done" ELSE "decoding"
    /\ UNCHANGED <<nameVars, fieldVars, pkgVars, oneofFuncs, origin, src, wireOut, encErr, sizerN>>
    /\ UNCHANGED typeVars

NextOneof == GenField \/ GenDeclarations \/ Build \/ Marshal \/ Receive \/ Unmarshal

SpecOneof == InitOneof /\ [][NextOneof]_vars


-----------------------------------------------------------------------------
(* Claims about the generated oneof functions *)

Groups == DOMAIN src

SetGroups == {oi \in Groups : src[oi] # NilVariant}

\* every case of the generated marshaler
EncCases == UNION {Range(oneofFuncs.enc[k]) : k \in DOMAIN oneofFuncs.enc}

\* the cases of the marshaler for field number tag
EncCasesOf(tag) == {c \in EncCases : NatWord(c.number) = tag}

Marshalled == origin = "marshal" /\ rpc \in {"decoding", "done"} /\ encErr = "nil"

\* C5: the bytes the generated marshaler writes for a message, handed key
\* by key to the generated unmarshaler, are all handled without error, each
\* call leaves the group of the written member holding the wrapper and the
\* value the source held, and at the end every set group of the source is
\* reproduced, with exactly one call per set group: an unset group wrote
\* nothing and its group in the destination is as it was.
C5_OneofRoundTrip ==
    Marshalled =>
      /\ ret.called =>
           /\ ret.handled
           /\ ret.err = "nil"
           /\ \E oi \in SetGroups :
                 /\ \E c \in EncCasesOf(ret.tag) :
                       c.tname = src[oi].wrapper /\ ret.wire = NatWord(WireCode[c.wire])
                 /\ dst[oi] = src[oi]
      /\ SetGroups = {} => wireOut = <<>>
      /\ rpc = "done" =>
           /\ wireIn = <<>>
           /\ ret.count = Cardinality(SetGroups)
           /\ \A oi \in Groups :
                 IF oi \in SetGroups THEN dst[oi] = src[oi]
                 ELSE dst[oi] \in {Fresh[oi], Preset[oi]}

\* Both groups set, the first to a non-empty nested message, decoded over a
\* destination that held other members.
C5_Witness ==
    /\ Marshalled
    /\ rpc = "done"
    /\ ret.count = 2
    /\ src[0].value.kind = "msg"
    /\ src[0].value.bytes = SmallBody
    /\ ret.before # Fresh
    /\ dst = src

\* C6: whenever the marshaler succeeds, the sizer returns exactly the number
\* of bytes the marshaler wrote for the same message; a message with every
\* group unset gives 0 and no bytes.
C6_SizerMatchesMarshaler ==
    Marshalled =>
      /\ sizerN = Len(wireOut)
      /\ SetGroups = {} => sizerN = 0

\* sint32 -1 alone, field number 1: one byte of key, one byte of zigzag.
C6_Witness ==
    /\ Marshalled
    /\ message.field[1].type = "sint32"
    /\ message.field[1].number = 1
    /\ src[0].wrapper = oneofTypeName[1]
    /\ src[0].value.word = 0..31
    /\ src[1] = NilVariant
    /\ sizerN = 2

WrongWire == EncCasesOf(ret.tag) # {}
               /\ \A c \in EncCasesOf(ret.tag) : ret.wire # NatWord(WireCode[c.wire])

\* C7: a call of the unmarshaler with the number of a oneof member and a
\* wire type other than the one the marshaler writes for it returns
\* (true, ErrInternalBadWireType), reads nothing and leaves every group as
\* it was; a call with a number of no oneof member returns (false, nil),
\* reads nothing and leaves every group as it was.
C7_BadWireAndUnknownTag ==
    ret.called =>
      /\ WrongWire =>
           /\ ret.handled
           /\ ret.err = "ErrInternalBadWireType"
           /\ dst = ret.before
           /\ wireIn = ret.bufBefore
      /\ EncCasesOf(ret.tag) = {} =>
           /\ ~ret.handled
           /\ ret.err = "nil"
           /\ dst = ret.before
           /\ wireIn = ret.bufBefore

\* A member's number with a wrong wire type and bytes to read, over a
\* destination whose groups are set.
C7_Witness ==
    /\ ret.called
    /\ WrongWire
    /\ ret.bufBefore # <<>>
    /\ \A oi \in DOMAIN dst : dst[oi] # NilVariant


-----------------------------------------------------------------------------
(* One field of every type, label and option through generate *)

Labels == {"optional", "required", "repeated"}

PackedOptions == {"nil", "unset", "true", "false"}

\* an enum declared at top level, one nested in M, one without values and
\* one of another package
EnumObjects ==
    { ObjectE,
      MkObject("enum", "pb", "my.pkg", << <<"M">>, <<"N">> >>,
               << MkValue(<<"Z","E","R","O">>, 0), MkValue(<<"O","N","E">>, 1) >>),
      MkObject("enum", "pb", "my.pkg", << <<"E">> >>, <<>>),
      MkObject("enum", "dep", "", << <<"E">> >>,
               << MkValue(<<"N","E","G">>, -1), MkValue(<<"Z","E","R","O">>, 0) >>) }

MessageObjects ==
    { ObjectT, MkObject("message", "dep", "dep", << <<"T">> >>, <<>>) }

ObjectsOf(type) ==
    CASE type = "enum" -> EnumObjects
      [] type \in {"message", "group"} -> MessageObjects
      [] OTHER -> {NoObject}

\* the default values a field of the type can declare
DefaultsOf(type, obj) ==
    {NoDefault} \cup
    CASE type = "enum" ->
           {[set |-> TRUE, val |-> Str(obj.values[k].name)] : k \in DOMAIN obj.values}
      [] type = "bool" -> {[set |-> TRUE, val |-> "true"]}
      [] type \in {"string", "bytes"} ->
           {[set |-> TRUE, val |-> ""], [set |-> TRUE, val |-> "hi"]}
      [] type \in {"float", "double"} ->
           {[set |-> TRUE, val |-> "1.5"], [set |-> TRUE, val |-> "inf"]}
      [] type \in {"message", "group"} -> {}
      [] OTHER -> {[set |-> TRUE, val |-> "7"]}

\* Enums of the file of message M, package my.pkg: enum m { X }, and in
\* message M enum K { X, Y } and enum L { W }
EnumLowerM == MkObject("enum", "pb", "my.pkg", << <<"m">> >>, << MkValue(<<"X">>, 0) >>)

EnumMK == MkObject("enum", "pb", "my.pkg", << <<"M">>, <<"K">> >>,
                   << MkValue(<<"X">>, 0), MkValue(<<"Y">>, 1) >>)

EnumML == MkObject("enum", "pb", "my.pkg", << <<"M">>, <<"L">> >>,
                   << MkValue(<<"W">>, 0) >>)

\* g.file.enum as wrapEnumDescriptors builds it: the top-level enums, then
\* the enums of the messages.  Names declared in one scope differ, and the
\* values of an enum are declared in the scope the enum is declared in.
EnumFilePool ==
    { <<>>, <<EnumLowerM>>, <<EnumMK>>, <<EnumMK, EnumML>>, <<EnumLowerM, EnumMK>>,
      <<EnumLowerM, EnumMK, EnumML>> }

\* the names of the enums of es declared in a message
RECURSIVE NestedEnumNames(_)
NestedEnumNames(es) ==
    IF es = <<>> THEN <<>>
    ELSE (IF Len(es[1].typeName) > 1 THEN << es[1].typeName[Len(es[1].typeName)] >> ELSE <<>>)
         \o NestedEnumNames(Tail(es))

\* "for _, enum := range g.file.enum { g.generateEnum(enum) }"
RECURSIVE generateEnums(_)
generateEnums(es) ==
    IF es = <<>> THEN <<>> ELSE EnumConsts(es[1]) \o generateEnums(Tail(es))

\* what protoc accepts: oneof members are optional, proto3 has no required
\* fields, groups or defaults and its enums start at 0, repeated fields
\* have no default, and only repeated scalar fields can be declared packed.
FieldOk(m, field, obj) ==
    /\ field.oneofIndex # NoOneof => field.label = "optional"
    /\ m.proto3 => /\ field.label # "required"
                   /\ field.type # "group"
                   /\ ~field.default.set
                   /\ field.type = "enum" /\ Len(obj.values) > 0 => obj.values[1].number = 0
    /\ field.default.set => field.label # "repeated"
    /\ field.options = "true" =>
         field.label = "repeated" /\ field.type \notin {"string", "bytes", "message", "group"}

InitField ==
    /\ \E k \in DOMAIN Kinds, label \in Labels, options \in PackedOptions,
          oi \in {NoOneof, 0}, proto3 \in BOOLEAN :
          \E obj \in ObjectsOf(Kinds[k]), es \in EnumFilePool :
             \E default \in DefaultsOf(Kinds[k], obj) :
                /\ message = MkMessage(<< <<"M">> >>,
                                        << MkField(<<"f">>, 1, Kinds[k], label, oi,
                                                   default, options) >>,
                                        IF oi = NoOneof THEN <<>> ELSE << <<"u">> >>,
                                        <<>>,
                                        (IF Len(obj.typeName) > 1 THEN << <<"N">> >> ELSE <<>>)
                                          \o NestedEnumNames(es),
                                        proto3)
                /\ refObj = obj
                /\ gfileEnum = es
                /\ FieldOk(message, message.field[1], obj)
    /\ pc = "enums"
    /\ NothingGenerated
    /\ IdleCodec
    /\ PackagesSet
    /\ NoTypes

\* generate: "for _, enum := range g.file.enum { g.generateEnum(enum) }",
\* also for the enum of the other package when its file is generated.
GenerateEnum ==
    /\ pc = "enums"
    /\ decls' = decls \o (IF refObj.kind = "enum" THEN EnumConsts(refObj) ELSE <<>>)
                      \o generateEnums(gfileEnum)
    /\ pc' = "fields"
    /\ UNCHANGED <<message, fi, usedNames, fieldNames, fieldGetterNames, oneofFieldName,
                   oneofDisc, oneofTypeName, allocLog, emitted, buffer,
                   oneofInsertPoints>>
    /\ UNCHANGED <<refObj, gfileEnum, goTags, defNames, getterBody, getters, codecVars,
                   pkgVars>>
    /\ UNCHANGED typeVars

NextField == GenerateEnum \/ GenField \/ GenDeclarations

SpecField == InitField /\ [][NextField]_vars

-----------------------------------------------------------------------------
(* Claims about goTag and the getters *)

\* C8: the tag of a field is marked packed exactly when its packed option
\* is given as true, or is not given while the field is repeated, of a
\* scalar numeric kind and in a proto3 message; so a repeated scalar field
\* without the option is unpacked under proto2 and a field with
\* packed=false is never packed.
C8_PackedIffOptionOrProto3Default ==
    \A i \in DOMAIN goTags :
       LET field == message.field[i]
           absent == field.options \in {"nil", "unset"}
       IN  /\ goTags[i].packed \in {"", ",packed"}
           /\ goTags[i].packed = ",packed" <=>
                \/ field.options = "true"
                \/ absent /\ field.label = "repeated" /\ isScalar(field) /\ message.proto3
           /\ absent /\ field.label = "repeated" /\ isScalar(field) /\ ~message.proto3
                => goTags[i].packed = ""
           /\ field.options = "false" => goTags[i].packed = ""

\* a repeated sint32 field of a proto3 message without FieldOptions
C8_Witness ==
    /\ Len(goTags) = 1
    /\ message.proto3
    /\ message.field[1].type = "sint32"
    /\ message.field[1].label = "repeated"
    /\ message.field[1].options = "nil"
    /\ goTags[1].packed = ",packed"

\* the declarations the expression e names
Resolve(e) ==
    {k \in DOMAIN decls :
        e = (IF decls[k].pkg = packageName THEN "" ELSE decls[k].pkg \o ".") \o decls[k].name}

EnumGetterFields ==
    {i \in DOMAIN getterBody :
        /\ message.field[i].type = "enum"
        /\ message.field[i].label # "repeated"
        /\ ~message.field[i].default.set
        /\ message.field[i].oneofIndex = NoOneof}

\* C9: the getter of a non-repeated enum field without default and outside
\* any oneof ends by returning the constant generateEnum declared for the
\* first value of the enum, whose value is the number of that value; it
\* ends by returning the literal 0 exactly when the enum has no values.
C9_EnumGetterFallsBackToFirstValue ==
    \A i \in EnumGetterFields :
       LET fb == getterBody[i].fallback
       IN  IF Len(refObj.values) = 0 THEN fb = "0 // empty enum"
           ELSE /\ fb \notin {"0", "0 // empty enum"}
                /\ Cardinality(Resolve(fb)) = 1
                /\ \A k \in Resolve(fb) :
                      /\ decls[k].kind = "const "
                      /\ decls[k].value = ToString(refObj.values[1].number)
                      /\ decls[k].name = prefix(refObj) \o Str(refObj.values[1].name)

\* E{FIRST=3, SECOND=5}: the getter returns E_FIRST, declared as 3
C9_Witness ==
    /\ EnumGetterFields = {1}
    /\ refObj = ObjectE
    /\ getterBody[1].fallback = "E_FIRST"
    /\ \E k \in Resolve("E_FIRST") : decls[k].value = "3"


-----------------------------------------------------------------------------
(* SetPackageNames and the package-name registry *)

UpperSet == Range(UpperChars)

\* unicode.IsLetter and unicode.IsDigit on the characters used
badToUnderscore(r) ==
    IF r \in LowerSet \/ r \in UpperSet \/ r \in DigitSet \/ r = "_" THEN r ELSE "_"

\* strings.Map(badToUnderscore, s)
MapBadToUnderscore(s) == [i \in DOMAIN s |-> badToUnderscore(s[i])]

\* strconv.Itoa of a positive number
RECURSIVE Itoa(_)
Itoa(i) == IF i < 10 THEN <<DigitChars[i + 1]>>
           ELSE Itoa(i \div 10) \o <<DigitChars[(i % 10) + 1]>>

\* strings.LastIndex(s, c), 1-based; 0 when c is not in s
LastIndex(s, c) ==
    IF \E i \in DOMAIN s : s[i] = c
    THEN CHOOSE i \in DOMAIN s : s[i] = c /\ \A j \in DOMAIN s : s[j] = c => j <= i
    ELSE 0

\* strings.IndexByte(s, c), 1-based; 0 when c is not in s
IndexByte(s, c) ==
    IF \E i \in DOMAIN s : s[i] = c
    THEN CHOOSE i \in DOMAIN s : s[i] = c /\ \A j \in DOMAIN s : s[j] = c => i <= j
    ELSE 0

baseName(name) ==
    LET n1 == SubSeq(name, LastIndex(name, "/") + 1, Len(name))
    IN  IF LastIndex(n1, ".") > 0 THEN SubSeq(n1, 1, LastIndex(n1, ".") - 1) ELSE n1

isGoKeyword ==
    {"break", "case", "chan", "const", "continue", "default", "else", "defer",
     "fallthrough", "for", "func", "go", "goto", "if", "import", "interface",
     "map", "package", "range", "return", "select", "struct", "switch", "type",
     "var"}

\* A FileDescriptor: its name, its package clause and its go_package option
MkFile(name, package, goPackage) ==
    [name |-> name, package |-> package, goPackage |-> goPackage]

\* FileDescriptor.goPackageOption: [impPath, pkg, ok]
goPackageOption(d) ==
    LET pkg == d.goPackage
        slash == LastIndex(pkg, "/")
        sc == IndexByte(pkg, ";")
    IN  IF pkg = <<>> THEN [impPath |-> <<>>, pkg |-> <<>>, ok |-> FALSE]
        ELSE IF slash = 0 THEN [impPath |-> <<>>, pkg |-> pkg, ok |-> TRUE]
        ELSE IF sc = 0
        THEN [impPath |-> pkg, pkg |-> SubSeq(pkg, slash + 1, Len(pkg)), ok |-> TRUE]
        ELSE [impPath |-> SubSeq(pkg, 1, sc - 1), pkg |-> SubSeq(pkg, sc + 1, Len(pkg)),
              ok |-> TRUE]

\* FileDescriptor.goPackageName: [name, explicit]
goPackageName(d) ==
    IF goPackageOption(d).ok THEN [name |-> goPackageOption(d).pkg, explicit |-> TRUE]
    ELSE IF d.package # <<>> THEN [name |-> d.package, explicit |-> FALSE]
    ELSE [name |-> baseName(d.name), explicit |-> FALSE]

\* Generator.defaultGoPackage
defaultGoPackage(importPath) ==
    LET p1 == SubSeq(importPath, LastIndex(importPath, "/") + 1, Len(importPath))
        p2 == MapBadToUnderscore(p1)
        p3 == IF Str(p2) \in isGoKeyword THEN <<"_">> \o p2 ELSE p2
    IN  IF p1 = <<>> THEN <<>>
        ELSE IF isASCIIDigit(p3[1]) THEN <<"_">> \o p3 ELSE p3

\* the loop of RegisterUniquePackageName
RECURSIVE UniqueFrom(_, _, _, _)
UniqueFrom(inUse, orig, pkg, i) ==
    IF pkg \in inUse THEN UniqueFrom(inUse, orig, orig \o Itoa(i), i + 1) ELSE pkg

RegisterUniquePackageNameAsIs(inUse, pkg) == MapBadToUnderscore(pkg)

RegisterUniquePackageNameOnce(inUse, pkg) ==
    IF MapBadToUnderscore(pkg) \in inUse THEN MapBadToUnderscore(pkg) \o Itoa(1)
    ELSE MapBadToUnderscore(pkg)

\* RegisterUniquePackageName: the name it installs and returns
RegisterUniquePackageName(inUse, pkg) ==
    UniqueFrom(inUse, MapBadToUnderscore(pkg), MapBadToUnderscore(pkg), 1)

\* SetPackageNames up to the registration of the package being generated:
\* [pkg, failed]
RECURSIVE CheckExplicit(_, _, _)
CheckExplicit(fs, k, acc) ==
    IF k > Len(fs) \/ acc.failed THEN acc
    ELSE LET this == goPackageName(fs[k])
         IN  IF ~this.explicit THEN CheckExplicit(fs, k + 1, acc)
             ELSE IF ~acc.explicit
             THEN CheckExplicit(fs, k + 1, [acc EXCEPT !.pkg = this.name, !.explicit = TRUE])
             ELSE IF this.name # acc.pkg
             THEN [acc EXCEPT !.failed = TRUE]
             ELSE CheckExplicit(fs, k + 1, acc)

ChoosePackage(fs, importPath) ==
    LET first == goPackageName(fs[1])
        a1 == CheckExplicit(fs, 1, [pkg |-> first.name, explicit |-> first.explicit,
                                    failed |-> FALSE])
        p == defaultGoPackage(importPath)
        a2 == IF ~a1.explicit /\ p # <<>> THEN [a1 EXCEPT !.pkg = p, !.explicit = TRUE]
              ELSE a1
    IN  IF a2.failed THEN a2
        ELSE IF ~a2.explicit /\ \E k \in DOMAIN fs : goPackageName(fs[k]).name # a2.pkg
        THEN [a2 EXCEPT !.failed = TRUE]
        ELSE a2

GenFilePool ==
    { MkFile(<<"a","/","x",".","p","r","o","t","o">>, <<"p","b">>, <<>>),
      MkFile(<<"f","m","t",".","p","r","o","t","o">>, <<>>, <<>>),
      MkFile(<<"x",".","p","r","o","t","o">>, <<"m","a","t","h">>, <<>>),
      MkFile(<<"x",".","p","r","o","t","o">>, <<"m","y",".","p","k","g">>, <<"e","x","a","m","p","l","e",".","c","o","m","/","y",";","p","r","o","t","o">>),
      MkFile(<<"x",".","p","r","o","t","o">>, <<"p","b">>, <<"g","o","/","f","m","t">>),
      MkFile(<<"y",".","p","r","o","t","o">>, <<"p","b">>, <<"p","b">>) }

DepFilePool ==
    { MkFile(<<"d","1",".","p","r","o","t","o">>, <<"f","m","t">>, <<>>),
      MkFile(<<"d","2",".","p","r","o","t","o">>, <<"p","r","o","t","o">>, <<>>),
      MkFile(<<"d","i","r","/","m","a","t","h",".","p","r","o","t","o">>, <<>>, <<>>),
      MkFile(<<"d","5",".","p","r","o","t","o">>, <<"p",".","b">>, <<"g","o","/","f","m","t">>) }

ImportPathPool == { <<>>, <<"x","/","f","m","t">>, <<"g","o">>, <<"9","p">> }

MaxGenFiles == 2

MaxDepFiles == 2

\* sequences of distinct elements of S of the lengths in lens
DistinctSeqs(S, lens) ==
    UNION { { q \in [1..k -> S] : \A i, j \in 1..k : i # j => q[i] # q[j] } : k \in lens }

NoFile == 0

At(at, i) == [at |-> at, i |-> i]

\* A fresh process: nothing registered yet.  protoc hands over the
\* dependencies before the files to generate.
InitPkg ==
    /\ \E gs \in DistinctSeqs(GenFilePool, 1..MaxGenFiles),
          ds \in DistinctSeqs(DepFilePool, 0..MaxDepFiles) :
          /\ allFiles = ds \o gs
          /\ genFiles = [k \in DOMAIN gs |-> Len(ds) + k]
    /\ PackageImportPath \in ImportPathPool
    /\ pkgNamesInUse = {}
    /\ uniquePackageName = <<>>
    /\ packageName = ""
    /\ Pkg = [fmt |-> "", math |-> "", proto |-> ""]
    /\ ppc = At("start", 0)
    /\ regLog = <<>>
    /\ run = 1
    /\ firstRun = <<>>
    /\ message = MkMessage(<<>>, <<>>, <<>>, <<>>, <<>>, FALSE)
    /\ pc = "idle"
    /\ refObj = NoObject
    /\ gfileEnum = <<>>
    /\ NothingGenerated
    /\ IdleCodec
    /\ NoTypes

\* SetPackageNames: "Register the name for this package."
RegisterPackage ==
    /\ ppc.at = "start"
    /\ LET c == ChoosePackage([k \in DOMAIN genFiles |-> allFiles[genFiles[k]]],
                              PackageImportPath)
           got == RegisterUniquePackageName(pkgNamesInUse, c.pkg)
       IN  IF c.failed
           THEN /\ ppc' = At("failed", 0)
                /\ UNCHANGED <<pkgNamesInUse, uniquePackageName, packageName, regLog>>
           ELSE /\ pkgNamesInUse' = pkgNamesInUse \cup {got}
                /\ uniquePackageName' = (genFiles[1] :> Str(got)) @@ uniquePackageName
                /\ packageName' = Str(got)
                /\ regLog' = Append(regLog, [pkg |-> c.pkg, file |-> genFiles[1], got |-> got])
                /\ ppc' = At("support", 0)
    /\ UNCHANGED <<allFiles, genFiles, PackageImportPath, Pkg, run, firstRun>>
    /\ UNCHANGED <<nameVars, fieldVars, codecVars>>
    /\ UNCHANGED typeVars

\* SetPackageNames: "Register the support package names."
RegisterSupport ==
    /\ ppc.at = "support"
    /\ LET fmt == RegisterUniquePackageName(pkgNamesInUse, <<"f","m","t">>)
           in1 == pkgNamesInUse \cup {fmt}
           math == RegisterUniquePackageName(in1, <<"m","a","t","h">>)
           in2 == in1 \cup {math}
           proto == RegisterUniquePackageName(in2, <<"p","r","o","t","o">>)
       IN  /\ Pkg' = [fmt |-> Str(fmt), math |-> Str(math), proto |-> Str(proto)]
           /\ pkgNamesInUse' = in2 \cup {proto}
           /\ regLog' = regLog \o << [pkg |-> <<"f","m","t">>, file |-> NoFile, got |-> fmt],
                                     [pkg |-> <<"m","a","t","h">>, file |-> NoFile, got |-> math],
                                     [pkg |-> <<"p","r","o","t","o">>, file |-> NoFile, got |-> proto] >>
    /\ ppc' = IF Len(allFiles) = 0 THEN At("done", 0) ELSE At("files", 1)
    /\ UNCHANGED <<allFiles, genFiles, PackageImportPath, uniquePackageName, packageName,
                   run, firstRun>>
    /\ UNCHANGED <<nameVars, fieldVars, codecVars>>
    /\ UNCHANGED typeVars

\* SetPackageNames: one round of "for _, f := range g.allFiles"
RegisterFile ==
    /\ ppc.at = "files"
    /\ LET f == ppc.i
           pkg == IF allFiles[f].package = <<>> THEN baseName(allFiles[f].name)
                  ELSE allFiles[f].package
           got == RegisterUniquePackageName(pkgNamesInUse, pkg)
       IN  IF f \in Range(genFiles)
           THEN /\ uniquePackageName' = (f :> packageName) @@ uniquePackageName
                /\ UNCHANGED <<pkgNamesInUse, regLog>>
           ELSE /\ pkgNamesInUse' = pkgNamesInUse \cup {got}
                /\ uniquePackageName' = (f :> Str(got)) @@ uniquePackageName
                /\ regLog' = Append(regLog, [pkg |-> pkg, file |-> f, got |-> got])
    /\ ppc' = IF ppc.i = Len(allFiles) THEN At("done", 0) ELSE At("files", ppc.i + 1)
    /\ UNCHANGED <<allFiles, genFiles, PackageImportPath, packageName, Pkg, run, firstRun>>
    /\ UNCHANGED <<nameVars, fieldVars, codecVars>>
    /\ UNCHANGED typeVars

MaxRuns == 2

\* generator.New() once more in the same process, for the same request: a
\* Generator with its fields zero; the package-level uniquePackageName and
\* pkgNamesInUse are what the run before left in them.
NewGenerator ==
    /\ ppc.at = "done"
    /\ run < MaxRuns
    /\ run' = run + 1
    /\ firstRun' = IF run = 1
                   THEN [packageName |-> packageName, Pkg |-> Pkg,
                         uniquePackageName |-> uniquePackageName]
                   ELSE firstRun
    /\ packageName' = ""
    /\ Pkg' = [fmt |-> "", math |-> "", proto |-> ""]
    /\ ppc' = At("start", 0)
    /\ UNCHANGED <<allFiles, genFiles, PackageImportPath, pkgNamesInUse,
                   uniquePackageName, regLog>>
    /\ UNCHANGED <<nameVars, fieldVars, codecVars>>
    /\ UNCHANGED typeVars

NextPkg == RegisterPackage \/ RegisterSupport \/ RegisterFile \/ NewGenerator

SpecPkg == InitPkg /\ [][NextPkg]_vars


-----------------------------------------------------------------------------
(* Claims about the package-name registry *)

SupportRegistered == run = 1 /\ ppc.at \in {"files", "done"}

SupportAliases == {"fmt", "math", "proto"}

AliasOf(a) == CASE a = "fmt" -> Pkg.fmt [] a = "math" -> Pkg.math [] a = "proto" -> Pkg.proto

\* the calls of RegisterUniquePackageName made for a support package
SupportCalls == {k \in DOMAIN regLog : regLog[k].file = NoFile}

\* C10 as stated: the support packages are registered before the package
\* name of any file and their aliases are fmt, math and proto unsuffixed,
\* whatever the package being generated is called.
C10_SupportAliasesUnsuffixed ==
    SupportRegistered =>
      /\ \A a \in SupportAliases : AliasOf(a) = a
      /\ \A k \in SupportCalls : \A j \in DOMAIN regLog : j < k => j \in SupportCalls

\* C10, amended: in a fresh process the name of the package being generated
\* is registered first and is unmodified, the support packages fmt, math
\* and proto are registered next, before the package of any dependency; so
\* the alias of a support package is its own name unless the package being
\* generated has that name, and then it is the name followed by 1.
C10_SupportAliasesAfterOwnPackage ==
    SupportRegistered =>
      /\ regLog[1].file = genFiles[1]
      /\ Str(regLog[1].got) = packageName
      /\ regLog[1].got = MapBadToUnderscore(regLog[1].pkg)
      /\ SupportCalls = {2, 3, 4}
      /\ \A k \in DOMAIN regLog : k > 4 => regLog[k].file \notin Range(genFiles)
      /\ \A a \in SupportAliases :
            AliasOf(a) = IF packageName = a THEN a \o "1" ELSE a

\* the package being generated is fmt, a dependency is of package fmt too
C10_Witness ==
    /\ run = 1
    /\ ppc.at = "done"
    /\ packageName = "fmt"
    /\ Pkg.fmt = "fmt1"
    /\ Pkg.proto = "proto"
    /\ \E k \in DOMAIN regLog : k > 4 /\ Str(regLog[k].got) = "fmt2"

\* the names returned by the calls before call k
ReturnedBefore(k) == {regLog[j].got : j \in 1..(k - 1)}

\* C11: every name RegisterUniquePackageName returns differs from every
\* name an earlier call returned; it is the candidate with its
\* non-identifier characters mapped to underscore when that is unused, and
\* otherwise the candidate followed by the least k >= 1 for which
\* candidate+k is unused; the search ends within as many steps as there
\* were earlier calls.
C11_RegisteredNamesUnique ==
    /\ pkgNamesInUse = {regLog[j].got : j \in DOMAIN regLog}
    /\ \A k \in DOMAIN regLog :
          LET cand == MapBadToUnderscore(regLog[k].pkg)
              got == regLog[k].got
          IN  /\ got \notin ReturnedBefore(k)
              /\ \A i \in DOMAIN cand :
                    cand[i] = IF regLog[k].pkg[i] \in LowerSet \cup UpperSet \cup DigitSet \cup {"_"}
                              THEN regLog[k].pkg[i] ELSE "_"
              /\ IF cand \notin ReturnedBefore(k) THEN got = cand
                 ELSE \E i \in 1..(k - 1) :
                        /\ got = cand \o Itoa(i)
                        /\ \A h \in 1..(i - 1) : cand \o Itoa(h) \in ReturnedBefore(k)

\* a candidate with a dot was registered with an underscore, and a
\* candidate whose name and name+1 were taken got the suffix 2
C11_Witness ==
    /\ ppc.at = "done"
    /\ \E k \in DOMAIN regLog :
          /\ regLog[k].pkg = <<"p",".","b">>
          /\ regLog[k].got = <<"p","_","b">>
    /\ \E k \in DOMAIN regLog :
          /\ regLog[k].pkg = <<"f","m","t">>
          /\ regLog[k].got = <<"f","m","t","2">>

\* C12 as stated: a second Generator in the same process, for the same
\* descriptor set, gives every file and every support alias the package
\* identifier the first Generator gave it.
C12_SecondRunSameNames ==
    (run = 2 /\ ppc.at = "done") =>
      /\ packageName = firstRun.packageName
      /\ Pkg = firstRun.Pkg
      /\ uniquePackageName = firstRun.uniquePackageName


-----------------------------------------------------------------------------
(* WrapTypes, BuildTypeNameMap, ObjectNamed and the public imports *)

\* A FieldDescriptorProto as the type pass reads it
MkTypedField(name, type, label, typeName) ==
    [name |-> name, type |-> type, label |-> label, typeName |-> typeName,
     oneofIndex |-> NoOneof]

\* An EnumDescriptorProto: its name and the names of its values
MkEnumProto(name, value) == [name |-> name, value |-> value]

\* A DescriptorProto; mapEntry is Options.MapEntry
MkDescriptorProto(name, field, nestedType, enumType, mapEntry) ==
    [name |-> name, field |-> field, nestedType |-> nestedType, enumType |-> enumType,
     mapEntry |-> mapEntry]

\* A FileDescriptorProto.  Dependency holds file names, PublicDependency
\* indexes into Dependency (from 0, as in the descriptor).
MkFileProto(name, package, dependency, publicDependency, messageType, enumType) ==
    [name |-> name, package |-> package, goPackage |-> <<>>, dependency |-> dependency,
     publicDependency |-> publicDependency, weakDependency |-> <<>>,
     messageType |-> messageType, enumType |-> enumType]

\* "parent == nil"
NoParent == 0

\* strings.Join(elem, ".")
RECURSIVE dottedSlice(_)
dottedSlice(elem) ==
    IF Len(elem) = 0 THEN <<>>
    ELSE IF Len(elem) = 1 THEN elem[1]
    ELSE elem[1] \o <<".">> \o dottedSlice(Tail(elem))

\* Descriptor.TypeName of the descriptor at position k of the slice sl
RECURSIVE DescriptorTypeName(_, _)
DescriptorTypeName(sl, k) ==
    IF sl[k].parent = NoParent THEN << sl[k].proto.name >>
    ELSE Append(DescriptorTypeName(sl, sl[k].parent), sl[k].proto.name)

\* EnumDescriptor.TypeName; descs is the slice its parent is in
EnumDescriptorTypeName(descs, e) ==
    IF e.parent = NoParent THEN << e.proto.name >>
    ELSE Append(DescriptorTypeName(descs, e.parent), e.proto.name)

\* newDescriptor; sl is the slice the parent is in.  A nested message is a
\* group when a group field of its parent names it.
newDescriptor(sl, desc, parent, file, index) ==
    LET parts == IF parent = NoParent THEN << desc.name >>
                 ELSE Append(DescriptorTypeName(sl, parent), desc.name)
        exp == <<".">> \o dottedSlice(IF file.package # <<>>
                                      THEN <<file.package>> \o parts ELSE parts)
    IN  [file |-> file.name, proto |-> desc, parent |-> parent, index |-> index,
         nested |-> <<>>, enums |-> <<>>,
         group |-> /\ parent # NoParent
                   /\ \E i \in DOMAIN sl[parent].proto.field :
                        /\ sl[parent].proto.field[i].type = "group"
                        /\ sl[parent].proto.field[i].typeName = exp]

RECURSIVE wrapThisDescriptor(_, _, _, _, _)
RECURSIVE wrapNestedTypes(_, _, _, _, _)

\* "for i, nested := range desc.NestedType" of wrapThisDescriptor
wrapNestedTypes(sl, nestedType, i, me, file) ==
    IF i > Len(nestedType) THEN sl
    ELSE wrapNestedTypes(wrapThisDescriptor(sl, nestedType[i], me, file, i - 1),
                         nestedType, i + 1, me, file)

wrapThisDescriptor(sl, desc, parent, file, index) ==
    wrapNestedTypes(Append(sl, newDescriptor(sl, desc, parent, file, index)),
                    desc.nestedType, 1, Len(sl) + 1, file)

RECURSIVE wrapMessageTypes(_, _, _)
wrapMessageTypes(sl, file, i) ==
    IF i > Len(file.messageType) THEN sl
    ELSE wrapMessageTypes(wrapThisDescriptor(sl, file.messageType[i], NoParent, file, i - 1),
                          file, i + 1)

wrapDescriptors(file) == wrapMessageTypes(<<>>, file, 1)

\* the positions of S in increasing order
RECURSIVE InOrder(_)
InOrder(S) ==
    IF S = {} THEN <<>>
    ELSE LET x == CHOOSE y \in S : \A z \in S : y <= z
         IN  <<x>> \o InOrder(S \ {x})

buildNestedDescriptorsAnyDepth(descs) ==
    LET built == [k \in DOMAIN descs |->
                    IF Len(descs[k].proto.nestedType) # 0
                    THEN [descs[k] EXCEPT !.nested =
                            InOrder({j \in DOMAIN descs : descs[j].parent # NoParent /\ j > k})]
                    ELSE descs[k]]
    IN  [descs |-> built,
         failed |-> \E k \in DOMAIN built :
                       /\ Len(built[k].proto.nestedType) # 0
                       /\ Len(built[k].nested) # Len(built[k].proto.nestedType)]

\* buildNestedDescriptors: the slice with every nested list filled in, and
\* whether g.Fail was called
buildNestedDescriptors(descs) ==
    LET built == [k \in DOMAIN descs |->
                    IF Len(descs[k].proto.nestedType) # 0
                    THEN [descs[k] EXCEPT !.nested =
                            InOrder({j \in DOMAIN descs : descs[j].parent = k})]
                    ELSE descs[k]]
    IN  [descs |-> built,
         failed |-> \E k \in DOMAIN built :
                       /\ Len(built[k].proto.nestedType) # 0
                       /\ Len(built[k].nested) # Len(built[k].proto.nestedType)]

newEnumDescriptor(desc, parent, file, index) ==
    [file |-> file.name, proto |-> desc, parent |-> parent, index |-> index]

\* "Enums within messages" of wrapEnumDescriptors, from descs[k] on
RECURSIVE wrapNestedEnums(_, _, _)
wrapNestedEnums(file, descs, k) ==
    IF k > Len(descs) THEN <<>>
    ELSE [i \in DOMAIN descs[k].proto.enumType |->
            newEnumDescriptor(descs[k].proto.enumType[i], k, file, i - 1)]
         \o wrapNestedEnums(file, descs, k + 1)

wrapEnumDescriptors(file, descs) ==
    [i \in DOMAIN file.enumType |-> newEnumDescriptor(file.enumType[i], NoParent, file, i - 1)]
    \o wrapNestedEnums(file, descs, 1)

\* buildNestedEnums: the slice with every enums list filled in, and
\* whether g.Fail was called
buildNestedEnums(descs, enums) ==
    LET built == [k \in DOMAIN descs |->
                    IF Len(descs[k].proto.enumType) # 0
                    THEN [descs[k] EXCEPT !.enums =
                            InOrder({j \in DOMAIN enums : enums[j].parent = k})]
                    ELSE descs[k]]
    IN  [descs |-> built,
         failed |-> \E k \in DOMAIN built :
                       /\ Len(built[k].proto.enumType) # 0
                       /\ Len(built[k].enums) # Len(built[k].proto.enumType)]

\* An Object: a Descriptor or an EnumDescriptor, named by its file and its
\* position in the file's desc or enum slice; via is the name of the file
\* of an ImportedDescriptor wrapping it, empty for the descriptor itself.
Ref(kind, file, idx, via) == [kind |-> kind, file |-> file, idx |-> idx, via |-> via]

NoRef == Ref("none", <<>>, 0, <<>>)

\* ImportedDescriptor{common{file}, o}
ImportedDescriptor(file, o) == [o EXCEPT !.via = file.name]

\* Generator.fileByName, as an index into allFiles; 0 is nil
fileByName(filename) ==
    IF \E i \in DOMAIN allFiles : allFiles[i].name = filename
    THEN CHOOSE i \in DOMAIN allFiles : allFiles[i].name = filename
    ELSE NoFile

\* common.File of an Object, as a file name
FileOfObject(o) == IF o.via # <<>> THEN o.via ELSE o.file

\* common.PackageName: uniquePackageOf(c.file)
PackageNameOf(o) == uniquePackageName[fileByName(FileOfObject(o))]

\* Object.TypeName; an ImportedDescriptor gives that of what it wraps
TypeNameOf(o) ==
    IF o.kind = "enum"
    THEN EnumDescriptorTypeName(fileDesc[fileByName(o.file)],
                                fileEnum[fileByName(o.file)][o.idx])
    ELSE DescriptorTypeName(fileDesc[fileByName(o.file)], o.idx)

\* the Object as Generator.TypeName and prefix read it
AsObject(o) ==
    MkObject(o.kind, PackageNameOf(o), Str(allFiles[fileByName(o.file)].package),
             TypeNameOf(o),
             IF o.kind = "enum" THEN fileEnum[fileByName(o.file)][o.idx].proto.value
             ELSE <<>>)

\* wrapImported, from the i-th public dependency on
RECURSIVE wrapImportedFrom(_, _)
wrapImportedFrom(file, i) ==
    IF i > Len(file.publicDependency) THEN <<>>
    ELSE LET name == file.dependency[file.publicDependency[i] + 1]
             df == fileByName(name)
             ds == InOrder({k \in DOMAIN fileDesc[df] : ~fileDesc[df][k].proto.mapEntry})
         IN  [k \in DOMAIN ds |-> ImportedDescriptor(file, Ref("message", name, ds[k], <<>>))]
             \o [k \in DOMAIN fileEnum[df] |->
                   ImportedDescriptor(file, Ref("enum", name, k, <<>>))]
             \o wrapImportedFrom(file, i + 1)

wrapImported(file) == wrapImportedFrom(file, 1)

dottedPkgAlways(file) == <<".">> \o file.package \o <<".">>

\* BuildTypeNameMap: dottedPkg
dottedPkg(file) ==
    IF file.package = <<>> THEN <<".">> ELSE <<".">> \o file.package \o <<".">>

\* BuildTypeNameMap: the assignments g.typeNameToObject[name] = ... made
\* for the files from f on, in order
RECURSIVE typeNameAssignments(_)
typeNameAssignments(f) ==
    IF f > Len(allFiles) THEN <<>>
    ELSE [k \in DOMAIN fileEnum[f] |->
            [name |-> dottedPkg(allFiles[f])
                        \o dottedSlice(EnumDescriptorTypeName(fileDesc[f], fileEnum[f][k])),
             obj |-> Ref("enum", allFiles[f].name, k, <<>>)]]
         \o [k \in DOMAIN fileDesc[f] |->
            [name |-> dottedPkg(allFiles[f]) \o dottedSlice(DescriptorTypeName(fileDesc[f], k)),
             obj |-> Ref("message", allFiles[f].name, k, <<>>)]]
         \o typeNameAssignments(f + 1)

\* a map after the assignments as, the later one winning
MapOf(as) ==
    [key \in {as[k].name : k \in DOMAIN as} |->
        as[CHOOSE k \in DOMAIN as :
              /\ as[k].name = key
              /\ \A j \in DOMAIN as : as[j].name = key => j <= k].obj]

ObjectNamedOriginal(cur, typeName) ==
    IF typeName \notin DOMAIN typeNameToObject
    THEN [ok |-> FALSE, o |-> NoRef, warned |-> FALSE]
    ELSE [ok |-> TRUE, o |-> typeNameToObject[typeName], warned |-> FALSE]

ObjectNamedStrict(cur, typeName) ==
    LET o == IF typeName \in DOMAIN typeNameToObject THEN typeNameToObject[typeName]
             ELSE NoRef
        deps == allFiles[cur].dependency
        direct == \/ o.file = allFiles[cur].name
                  \/ \E i \in DOMAIN deps : allFiles[fileByName(deps[i])].name = o.file
        hits == {i \in DOMAIN deps :
                   \E j \in DOMAIN fileImp[fileByName(deps[i])] :
                      fileImp[fileByName(deps[i])][j] = ImportedDescriptor([name |-> deps[i]], o)}
    IN  IF typeName \notin DOMAIN typeNameToObject \/ (~direct /\ hits = {})
        THEN [ok |-> FALSE, o |-> NoRef, warned |-> FALSE]
        ELSE IF direct THEN [ok |-> TRUE, o |-> o, warned |-> FALSE]
        ELSE [ok |-> TRUE,
              o |-> ImportedDescriptor(
                      [name |-> deps[CHOOSE i \in hits : \A h \in hits : i <= h]], o),
              warned |-> FALSE]

\* ObjectNamed while g.file is allFiles[cur]: ok is false when g.Fail was
\* called, warned is true when the warning was logged
ObjectNamed(cur, typeName) ==
    IF typeName \notin DOMAIN typeNameToObject
    THEN [ok |-> FALSE, o |-> NoRef, warned |-> FALSE]
    ELSE LET o == typeNameToObject[typeName]
             deps == allFiles[cur].dependency
             direct == \/ o.file = allFiles[cur].name
                       \/ \E i \in DOMAIN deps :
                             allFiles[fileByName(deps[i])].name = o.file
             \* the dependencies whose imp holds an ImportedDescriptor of o
             hits == {i \in DOMAIN deps :
                        \E j \in DOMAIN fileImp[fileByName(deps[i])] :
                           [fileImp[fileByName(deps[i])][j] EXCEPT !.via = <<>>] = o}
             first == CHOOSE i \in hits : \A h \in hits : i <= h
             imp == fileImp[fileByName(deps[first])]
             td == imp[CHOOSE j \in DOMAIN imp :
                         /\ [imp[j] EXCEPT !.via = <<>>] = o
                         /\ \A h \in DOMAIN imp : [imp[h] EXCEPT !.via = <<>>] = o => j <= h]
         IN  IF direct THEN [ok |-> TRUE, o |-> o, warned |-> FALSE]
             ELSE IF hits # {} THEN [ok |-> TRUE, o |-> td, warned |-> FALSE]
             ELSE [ok |-> TRUE, o |-> o, warned |-> TRUE]

\* a symbol of an export table: enumSymbol, constOrVarSymbol or
\* messageSymbol with its getters
MkSymbol(kind, name, gets) == [kind |-> kind, name |-> name, getters |-> gets]

addExportEverywhere(exported, d, obj, sym) ==
    [f \in DOMAIN exported |-> Append(exported[f], [obj |-> obj, sym |-> sym])]

\* FileDescriptor.addExport on allFiles[d]: an export table is kept as the
\* sequence of its (object, symbol) pairs
addExport(exported, d, obj, sym) ==
    [exported EXCEPT ![d] = Append(@, [obj |-> obj, sym |-> sym])]

\* "df.exported[id.o]" on the table tbl
ExportedOf(tbl, o) ==
    LET ks == InOrder({k \in DOMAIN tbl : tbl[k].obj = o})
    IN  [k \in DOMAIN ks |-> tbl[ks[k]].sym]

\* generateImported: whether the import was ignored, the package marked
\* used and the aliases GenerateAlias wrote
generateImported(id) ==
    LET df == fileByName(id.file)
        ignored == \E k \in DOMAIN genFiles : allFiles[genFiles[k]].name = allFiles[df].name
        syms == ExportedOf(fileExported[df], [id EXCEPT !.via = <<>>])
    IN  [ignored |-> ignored,
         used |-> uniquePackageName[df],
         aliases |-> IF ignored THEN <<>>
                     ELSE [k \in DOMAIN syms |->
                             [sym |-> syms[k], remote |-> uniquePackageName[df],
                              o |-> [id EXCEPT !.via = <<>>]]]]

\* the concatenation of a sequence of sequences
RECURSIVE Flatten(_)
Flatten(ss) == IF ss = <<>> THEN <<>> ELSE ss[1] \o Flatten(Tail(ss))

\* generateEnum: the addExport calls for the enum at position k of
\* allFiles[cur].enum
generateEnumExports(cur, k) ==
    LET o == Ref("enum", allFiles[cur].name, k, <<>>)
        enum == AsObject(o)
    IN  << [obj |-> o, sym |-> MkSymbol("enum", Str(CamelCaseSlice(enum.typeName)), <<>>)] >>
        \o [v \in DOMAIN enum.values |->
              [obj |-> o,
               sym |-> MkSymbol("const", prefix(enum) \o Str(enum.values[v].name), <<>>)]]

\* ObjectNamed for a field of a named type, nothing for a scalar field
resolveNamed(cur, named, typeName) ==
    IF named THEN ObjectNamed(cur, typeName)
    ELSE [ok |-> TRUE, o |-> NoRef, warned |-> FALSE]

\* GoType with what ObjectNamed returned; fields of the files of these
\* requests are proto2
goTypeNamed(field, r) ==
    GoTypeOf([proto3 |-> FALSE], field,
             IF r.ok /\ r.o.kind # "none" THEN AsObject(r.o) ELSE NoObject).typ

\* strings.TrimPrefix(typ, "*")
trimStar(typ) == IF typ # <<>> /\ typ[1] = "*" THEN Tail(typ) ELSE typ

\* generateMessage, the Go type of a map field: "map[%s]%s" of the key
\* type and the value type, without stars except for a message value
mapTypeName(keyField, valField, rv) ==
    "map[" \o Concat(trimStar(goTypeNamed(keyField, [ok |-> TRUE, o |-> NoRef])))
      \o "]"
      \o Concat(IF valField.type = "message" THEN goTypeNamed(valField, rv)
                ELSE trimStar(goTypeNamed(valField, rv)))

\* generateMessage, what is kept of one field: r is what ObjectNamed
\* returned for its type, rv what it returned for the value type of a map
\* field, typ its Go type; RecordTypeUse marks the packages used and the
\* switch on the field type decides on the getter
fieldGenerated(cur, k, field, r, isMap, rv, valTypeName, typ) ==
    [message |-> k, name |-> field.name, type |-> field.type,
     typeName |-> field.typeName, ok |-> r.ok /\ rv.ok,
     o |-> r.o, warned |-> r.warned, valWarned |-> rv.warned,
     isMap |-> isMap, valO |-> rv.o,
     valTypeName |-> valTypeName, typ |-> typ,
     used |-> (IF r.ok /\ r.o.kind # "none" THEN {PackageNameOf(r.o)} ELSE {})
              \cup (IF rv.ok /\ rv.o.kind # "none" THEN {PackageNameOf(rv.o)} ELSE {}),
     getter |-> IF r.ok /\ r.o.kind # "none"
                THEN exportGetter(field.type, PackageNameOf(r.o), uniquePackageName[cur])
                ELSE exportGetter(field.type, "", "")]

\* generateMessage, a map field: d is its entry message
generateMapField(cur, k, field, r, keyField, valField, rv) ==
    fieldGenerated(cur, k, field, r, TRUE, rv,
                   IF valField.type \in {"message", "enum"} THEN valField.typeName
                   ELSE <<>>,
                   mapTypeName(keyField, valField, rv))

\* generateMessage, for one field whose type ObjectNamed resolved to r
generateFieldNamed(cur, k, field, r, d) ==
    IF field.type = "message" /\ r.ok /\ r.o.via = <<>> /\ d.proto.mapEntry
    THEN generateMapField(cur, k, field, r, d.proto.field[1], d.proto.field[2],
                          resolveNamed(cur, d.proto.field[2].type \in {"message", "enum"},
                                       d.proto.field[2].typeName))
    ELSE fieldGenerated(cur, k, field, r, FALSE,
                        [ok |-> TRUE, o |-> NoRef, warned |-> FALSE], <<>>,
                        Concat(goTypeNamed(field, r)))

\* the Descriptor an Object resolved for a field stands for
descriptorOf(r) == fileDesc[fileByName(r.o.file)][r.o.idx]

\* generateMessage, for one field of the message at position k of
\* allFiles[cur].desc: what ObjectNamed returned for its type, its Go type,
\* whether it is a map field and whether its getter is exported
generateField(cur, k, field) ==
    generateFieldNamed(cur, k, field,
       resolveNamed(cur, field.type \in {"message", "group", "enum"}, field.typeName),
       descriptorOf(resolveNamed(cur, field.type \in {"message", "group", "enum"},
                                 field.typeName)))

\* generateMessage: the fields of the message at position k
generateFields(cur, k) ==
    [i \in DOMAIN fileDesc[cur][k].proto.field |->
        generateField(cur, k, fileDesc[cur][k].proto.field[i])]

\* generateMessage: the getterSymbols of the fields fs at the positions gs
getterSymbols(fs, gs) ==
    [j \in DOMAIN gs |->
       [name |-> Str(GetPrefix \o CamelCase(fs[gs[j]].name)),
        typ |-> fs[gs[j]].typ,
        typeName |-> fs[gs[j]].typeName,
        genType |-> fs[gs[j]].type \in {"message", "enum"}]]

\* generateMessage: the messageSymbol of the message o with the fields fs
messageSymbol(o, fs) ==
    MkSymbol("message", Str(CamelCaseSlice(TypeNameOf(o))),
             getterSymbols(fs, InOrder({i \in DOMAIN fs : fs[i].getter})))

\* generateMessage: the addExport call, none for a group
generateMessageExports(cur, k) ==
    IF fileDesc[cur][k].group THEN <<>>
    ELSE << [obj |-> Ref("message", allFiles[cur].name, k, <<>>),
             sym |-> messageSymbol(Ref("message", allFiles[cur].name, k, <<>>),
                                   generateFields(cur, k))] >>

\* the addExport calls es[i..] applied to the tables
RECURSIVE addExports(_, _, _, _)
addExports(exported, d, es, i) ==
    IF i > Len(es) THEN exported
    ELSE addExports(addExport(exported, d, es[i].obj, es[i].sym), d, es, i + 1)

\* the file names of the requests
FileA == <<"a",".","p","r","o","t","o">>

FileB == <<"b",".","p","r","o","t","o">>

FileB2 == <<"b","2",".","p","r","o","t","o">>

FileC == <<"c",".","p","r","o","t","o">>

FileD == <<"d",".","p","r","o","t","o">>

\* d.proto: package d; message T { message U { enum K { K0 } message V {} }
\* enum E { E0, E1 } }  enum G { G0 }
ProtoD ==
    MkFileProto(FileD, <<"d">>, <<>>, <<>>,
      << MkDescriptorProto(<<"T">>, <<>>,
           << MkDescriptorProto(<<"U">>, <<>>,
                << MkDescriptorProto(<<"V">>, <<>>, <<>>, <<>>, FALSE) >>,
                << MkEnumProto(<<"K">>, << MkValue(<<"K","0">>, 0) >>) >>, FALSE) >>,
           << MkEnumProto(<<"E">>, << MkValue(<<"E","0">>, 0), MkValue(<<"E","1">>, 1) >>) >>,
           FALSE) >>,
      << MkEnumProto(<<"G">>, << MkValue(<<"G","0">>, 0) >>) >>)

\* c.proto: package c; import [public] "d.proto"; message S { optional d.T t }
ProtoC(public) ==
    MkFileProto(FileC, <<"c">>, <<FileD>>, IF public THEN <<0>> ELSE <<>>,
      << MkDescriptorProto(<<"S">>,
           << MkTypedField(<<"t">>, "message", "optional", <<".","d",".","T">>) >>,
           <<>>, <<>>, FALSE) >>,
      <<>>)

\* b.proto: package b; import [public] "c.proto"; message R { optional group
\* Grp { } ; repeated c.S s }
ProtoB(public) ==
    MkFileProto(FileB, <<"b">>, <<FileC>>, IF public THEN <<0>> ELSE <<>>,
      << MkDescriptorProto(<<"R">>,
           << MkTypedField(<<"g","r","p">>, "group", "optional",
                           <<".","b",".","R",".","G","r","p">>),
              MkTypedField(<<"s">>, "message", "repeated", <<".","c",".","S">>) >>,
           << MkDescriptorProto(<<"G","r","p">>, <<>>, <<>>, <<>>, FALSE) >>,
           <<>>, FALSE) >>,
      <<>>)

\* b2.proto: package b2; import public "c.proto"; enum H { H0 }
ProtoB2 ==
    MkFileProto(FileB2, <<"b","2">>, <<FileC>>, <<0>>, <<>>,
      << MkEnumProto(<<"H">>, << MkValue(<<"H","0">>, 0) >>) >>)

\* the dependency lists of a.proto
DependencyPool ==
    { <<FileB>>, <<FileB, FileB2>>, <<FileB2, FileB>>, <<FileB, FileD>>, <<FileC>>,
      <<FileB, FileC, FileD>> }

\* the packages of a.proto
PackagePool == { <<"a">>, <<>>, <<"c">> }

\* the type a field of a.proto names: a message or an enum of a file that
\* a.proto can see, a nested type of a.proto or a name that no file declares
FieldTypePool ==
    { [type |-> "message", typeName |-> <<".","d",".","T">>],
      [type |-> "message", typeName |-> <<".","d",".","T",".","U",".","V">>],
      [type |-> "enum",    typeName |-> <<".","d",".","T",".","U",".","K">>],
      [type |-> "enum",    typeName |-> <<".","d",".","G">>],
      [type |-> "message", typeName |-> <<".","c",".","S">>],
      [type |-> "message", typeName |-> <<".","b",".","R">>],
      [type |-> "message", typeName |-> <<".","x",".","M","i","s","s","i","n","g">>] }

\* a.proto: message M { optional <type> f; map<string, <type>> m;
\* optional int32 n }, the map field with its entry message
ProtoA(package, dependency, public, ft) ==
    MkFileProto(FileA, package, dependency,
      IF public THEN [i \in DOMAIN dependency |-> i - 1] ELSE <<>>,
      << MkDescriptorProto(<<"M">>,
           << MkTypedField(<<"f">>, ft.type, "optional", ft.typeName),
              MkTypedField(<<"m">>, "message", "repeated",
                           (IF package = <<>> THEN <<".">>
                            ELSE <<".">> \o package \o <<".">>)
                             \o <<"M",".","M","E","n","t","r","y">>),
              MkTypedField(<<"n">>, "int32", "optional", <<>>) >>,
           << MkDescriptorProto(<<"M","E","n","t","r","y">>,
                << MkTypedField(<<"k","e","y">>, "string", "optional", <<>>),
                   MkTypedField(<<"v","a","l","u","e">>, ft.type, "optional", ft.typeName) >>,
                <<>>, <<>>, TRUE) >>,
           <<>>, FALSE) >>,
      <<>>)

\* the weak imports of a.proto: none, or its first import
WeakPool == { <<>>, <<0>> }

\* the file with "import weak" for the dependencies at the positions wk
WeaklyImporting(file, wk) == [file EXCEPT !.weakDependency = wk]

\* protoc hands over the files to generate and everything they import,
\* every file after the files it imports
RequestOf(a, pubB, pubC, alsoC) ==
    [protoFile |-> << ProtoD, ProtoC(pubC) >>
                   \o (IF \E i \in DOMAIN a.dependency : a.dependency[i] = FileB
                       THEN << ProtoB(pubB) >> ELSE <<>>)
                   \o (IF \E i \in DOMAIN a.dependency : a.dependency[i] = FileB2
                       THEN << ProtoB2 >> ELSE <<>>)
                   \o << a >>,
     fileToGenerate |-> IF alsoC THEN <<FileC, FileA>> ELSE <<FileA>>]

\* the messages a DescriptorProto declares, itself included, each with the
\* path of names that leads to it
RECURSIVE DeclaredIn(_, _)
DeclaredIn(dp, above) ==
    {[path |-> Append(above, dp.name), proto |-> dp]}
    \cup UNION {DeclaredIn(dp.nestedType[i], Append(above, dp.name)) :
                  i \in DOMAIN dp.nestedType}

DeclaredMessages(file) ==
    UNION {DeclaredIn(file.messageType[i], <<>>) : i \in DOMAIN file.messageType}

DeclaredEnums(file) ==
    {[path |-> <<file.enumType[i].name>>, proto |-> file.enumType[i]] :
        i \in DOMAIN file.enumType}
    \cup UNION {{[path |-> Append(m.path, m.proto.enumType[i].name),
                  proto |-> m.proto.enumType[i]] : i \in DOMAIN m.proto.enumType} :
                m \in DeclaredMessages(file)}

\* "." + package + "." + dotted path, "." + path for the empty package
FullName(file, path) ==
    IF file.package = <<>> THEN <<".">> \o dottedSlice(path)
    ELSE <<".">> \o file.package \o <<".">> \o dottedSlice(path)

\* the files whose types a file importing the file named name sees: the
\* file itself and what it imports publicly, at any depth
RECURSIVE SeenThrough(_, _, _)
SeenThrough(files, name, depth) ==
    {name} \cup
    IF depth = 0 THEN {}
    ELSE LET file == files[CHOOSE k \in DOMAIN files : files[k].name = name]
         IN  UNION {SeenThrough(files, file.dependency[file.publicDependency[i] + 1],
                                depth - 1) : i \in DOMAIN file.publicDependency}

\* protoc accepts a type name that a.proto, the last file, or a file it
\* sees declares; a name nothing declares is a broken request
Visible(files, typeName) ==
    LET a == files[Len(files)]
        seen == UNION {SeenThrough(files, a.dependency[i], Len(files)) :
                         i \in DOMAIN a.dependency}
    IN  \/ \A k \in DOMAIN files :
              \A x \in DeclaredMessages(files[k]) \cup DeclaredEnums(files[k]) :
                 FullName(files[k], x.path) # typeName
        \/ \E k \in DOMAIN files :
              /\ files[k].name \in seen
              /\ \E x \in DeclaredMessages(files[k]) \cup DeclaredEnums(files[k]) :
                    FullName(files[k], x.path) = typeName

InitTypes ==
    /\ \E package \in PackagePool, dependency \in DependencyPool, ft \in FieldTypePool,
          public, pubB, pubC, alsoC \in BOOLEAN, wk \in WeakPool :
          /\ alsoC => package = <<"c">>
          /\ wk # <<>> => ~public
          /\ Visible(RequestOf(ProtoA(package, dependency, public, ft),
                               pubB, pubC, alsoC).protoFile, ft.typeName)
          /\ Request = RequestOf(WeaklyImporting(ProtoA(package, dependency, public, ft), wk),
                                 pubB, pubC, alsoC)
    /\ allFiles = <<>>
    /\ genFiles = <<>>
    /\ PackageImportPath = <<>>
    /\ pkgNamesInUse = {}
    /\ uniquePackageName = <<>>
    /\ packageName = ""
    /\ Pkg = [fmt |-> "", math |-> "", proto |-> ""]
    /\ ppc = At("wrap", 0)
    /\ regLog = <<>>
    /\ run = 1
    /\ firstRun = <<>>
    /\ fileDesc = <<>>
    /\ fileEnum = <<>>
    /\ fileImp = <<>>
    /\ fileExported = <<>>
    /\ typeNameToObject = <<>>
    /\ gfile = 0
    /\ usedPackages = {}
    /\ written = <<>>
    /\ Buffer = <<>>
    /\ ginit = <<>>
    /\ Response = <<>>
    /\ warnings = <<>>
    /\ tpc = "wrap"
    /\ message = MkMessage(<<>>, <<>>, <<>>, <<>>, <<>>, FALSE)
    /\ pc = "idle"
    /\ refObj = NoObject
    /\ gfileEnum = <<>>
    /\ NothingGenerated
    /\ IdleCodec

\* WrapTypes: one round of "for _, f := range g.Request.ProtoFile"
WrapFile ==
    /\ tpc = "wrap"
    /\ LET f == Request.protoFile[Len(allFiles) + 1]
           descs == buildNestedDescriptors(wrapDescriptors(f))
           enums == wrapEnumDescriptors(f, descs.descs)
           built == buildNestedEnums(descs.descs, enums)
       IN  IF descs.failed \/ built.failed
           THEN /\ tpc' = "failed"
                /\ UNCHANGED <<allFiles, fileDesc, fileEnum, fileImp, fileExported>>
           ELSE /\ allFiles' = Append(allFiles, f)
                /\ fileDesc' = Append(fileDesc, built.descs)
                /\ fileEnum' = Append(fileEnum, enums)
                /\ fileImp' = Append(fileImp, <<>>)
                /\ fileExported' = Append(fileExported, <<>>)
                /\ tpc' = IF Len(allFiles) + 1 = Len(Request.protoFile)
                          THEN "imported" ELSE "wrap"
    /\ UNCHANGED <<Request, typeNameToObject, gfile, usedPackages, written, warnings,
                   Buffer, ginit, Response>>
    /\ UNCHANGED <<genFiles, PackageImportPath, pkgNamesInUse, uniquePackageName,
                   packageName, Pkg, ppc, regLog, run, firstRun>>
    /\ UNCHANGED <<nameVars, fieldVars, codecVars>>

\* WrapTypes: "for _, fd := range g.allFiles { fd.imp = wrapImported(...) }"
\* and the genFiles loop
WrapImported ==
    /\ tpc = "imported"
    /\ fileImp' = [k \in DOMAIN allFiles |-> wrapImported(allFiles[k])]
    /\ LET ftg == Request.fileToGenerate
       IN  IF \E k \in DOMAIN ftg : fileByName(ftg[k]) = NoFile
           THEN /\ tpc' = "failed"
                /\ UNCHANGED <<genFiles, ppc>>
           ELSE /\ genFiles' = [k \in DOMAIN ftg |-> fileByName(ftg[k])]
                /\ tpc' = "packages"
                /\ ppc' = At("start", 0)
    /\ UNCHANGED <<Request, fileDesc, fileEnum, fileExported, typeNameToObject, gfile,
                   usedPackages, written, warnings,
                   Buffer, ginit, Response>>
    /\ UNCHANGED <<allFiles, PackageImportPath, pkgNamesInUse, uniquePackageName,
                   packageName, Pkg, regLog, run, firstRun>>
    /\ UNCHANGED <<nameVars, fieldVars, codecVars>>

\* BuildTypeNameMap, called after SetPackageNames
BuildTypeNameMap ==
    /\ tpc = "packages"
    /\ ppc.at = "done"
    /\ typeNameToObject' = MapOf(typeNameAssignments(1))
    /\ tpc' = "generate"
    /\ UNCHANGED <<Request, fileDesc, fileEnum, fileImp, fileExported, gfile,
                   usedPackages, written, warnings,
                   Buffer, ginit, Response>>
    /\ UNCHANGED <<nameVars, fieldVars, codecVars, pkgVars>>

\* generate(allFiles[cur]): the public imports of the file
generatedImports(cur) ==
    [j \in DOMAIN fileImp[cur] |-> generateImported(fileImp[cur][j])]

\* generate(allFiles[cur]): the messages generateMessage is called for,
\* map entries left out
generatedMessages(cur) ==
    InOrder({k \in DOMAIN fileDesc[cur] : ~fileDesc[cur][k].proto.mapEntry})

\* generate(allFiles[cur]): the fields of the messages ms
generatedFields(cur, ms) ==
    Flatten([j \in DOMAIN ms |-> generateFields(cur, ms[j])])

\* generate(allFiles[cur]): the addExport calls, of the enums and then of
\* the messages ms
generatedExports(cur, ms) ==
    Flatten([k \in DOMAIN fileEnum[cur] |-> generateEnumExports(cur, k)])
    \o Flatten([j \in DOMAIN ms |-> generateMessageExports(cur, ms[j])])

\* the warnings ObjectNamed logged for the fields
loggedWarnings(cur, fields) ==
    Flatten([i \in DOMAIN fields |->
       (IF fields[i].warned
        THEN << [typeName |-> fields[i].typeName, file |-> allFiles[cur].name] >>
        ELSE <<>>)
       \o (IF fields[i].valWarned
           THEN << [typeName |-> fields[i].valTypeName, file |-> allFiles[cur].name] >>
           ELSE <<>>)])

\* One line of the output, written while allFiles[file] is generated; dep
\* is the position of the dependency an import line is for
MkOut(file, kind, dep, text) == [file |-> file, kind |-> kind, dep |-> dep, text |-> text]

writeOutputAlways(cur) == TRUE

\* GenerateAllFiles: "g.writeOutput = genFileMap[file]"
writeOutput(cur) == \E k \in DOMAIN genFiles : genFiles[k] = cur

\* g.P: "if !g.writeOutput { return }"
P(buf, lines, wo) == IF wo THEN buf \o lines ELSE buf

\* bytes.Buffer.Reset
Reset(buf) == <<>>

\* generate: "g.usedPackages = make(map[string]bool)"
makeUsedPackages == {}

\* FileDescriptor.goFileName, for a name that ends in .proto and a file
\* without go_package option
goFileName(file) == SubSeq(file.name, 1, Len(file.name) - 6) \o <<".","p","b",".","g","o">>

weakNever(file, i) == FALSE

\* Generator.weak, for g.file = file
weak(file, i) == \E j \in DOMAIN file.weakDependency : file.weakDependency[j] = i

\* generateImports: one round of "for i, s := range g.file.Dependency",
\* for the dependency at position d (from 1)
generateImport(cur, d, used) ==
    LET fd == fileByName(allFiles[cur].dependency[d])
    IN  IF uniquePackageName[fd] = packageName THEN <<>>
        ELSE IF weak(allFiles[cur], d - 1)
        THEN << MkOut(cur, "// skipping weak import", d, uniquePackageName[fd]) >>
        ELSE << MkOut(cur, "import", d,
                      IF uniquePackageName[fd] \in used THEN uniquePackageName[fd]
                      ELSE "_") >>

\* generateImports: the imports of proto, fmt and math, then those of the
\* dependencies
generateImports(cur, used) ==
    << MkOut(cur, "import", 0, Pkg.proto), MkOut(cur, "import", 0, Pkg.fmt),
       MkOut(cur, "import", 0, Pkg.math) >>
    \o Flatten([d \in DOMAIN allFiles[cur].dependency |-> generateImport(cur, d, used)])

\* generateMessage and generateInitFunction: the addInitf calls for the
\* messages and then the enums of allFiles[cur], added to g.init
queuedInit(cur) ==
    ginit
    \o [j \in DOMAIN generatedMessages(cur) |->
          MkOut(cur, "RegisterType", 0,
                Str(CamelCaseSlice(DescriptorTypeName(fileDesc[cur],
                                                      generatedMessages(cur)[j]))))]
    \o [k \in DOMAIN fileEnum[cur] |->
          MkOut(cur, "RegisterEnum", 0,
                Str(CamelCaseSlice(EnumDescriptorTypeName(fileDesc[cur], fileEnum[cur][k]))))]

generateInitFunctionKeeps(cur, queued) ==
    [lines |-> << MkOut(cur, "func init() {", 0, "") >> \o queued, init |-> queued]

\* generateInitFunction, after the registrations are queued: the lines of
\* the init function and what is left in g.init
generateInitFunction(cur, queued) ==
    IF Len(queued) = 0 THEN [lines |-> <<>>, init |-> queued]
    ELSE [lines |-> << MkOut(cur, "func init() {", 0, "") >> \o queued, init |-> <<>>]

\* generate up to generateFileDescriptor: what g.P writes into the buffer
\* GenerateAllFiles has reset, for the public imports, the enums, the
\* messages, the init function and the file descriptor
generatedBody(cur, wo, imps, queued) ==
    P(Reset(Buffer),
      [j \in DOMAIN imps |->
          MkOut(cur, IF imps[j].ignored THEN "// Ignoring public import"
                     ELSE "// from public import", 0, imps[j].used)]
      \o [k \in DOMAIN fileEnum[cur] |->
            MkOut(cur, "type", 0,
                  Str(CamelCaseSlice(EnumDescriptorTypeName(fileDesc[cur], fileEnum[cur][k]))))]
      \o [j \in DOMAIN generatedMessages(cur) |->
            MkOut(cur, "type", 0,
                  Str(CamelCaseSlice(DescriptorTypeName(fileDesc[cur],
                                                        generatedMessages(cur)[j]))))]
      \o generateInitFunction(cur, queued).lines
      \o << MkOut(cur, "var fileDescriptor", 0, "") >>,
      wo)

\* the end of generate: "rem := g.Buffer; g.Buffer = new(bytes.Buffer)",
\* the header and the imports, and the body after them if output is
\* written
generatedFile(cur, wo, used, rem) ==
    IF ~wo
    THEN P(P(<<>>, << MkOut(cur, "package", 0, packageName) >>, wo),
           generateImports(cur, used), wo)
    ELSE P(P(<<>>, << MkOut(cur, "package", 0, packageName) >>, wo),
           generateImports(cur, used), wo) \o rem

\* generate(allFiles[cur]) with what its parts came to: the run stops at
\* the first g.Fail of ObjectNamed
generate(cur, imps, fields, exports) ==
    /\ gfile' = cur
    /\ IF \E i \in DOMAIN fields : ~fields[i].ok
       THEN /\ tpc' = "failed"
            /\ UNCHANGED <<fileExported, usedPackages, written, warnings,
                   Buffer, ginit, Response>>
       ELSE /\ usedPackages' =
                 makeUsedPackages
                 \cup {imps[j].used : j \in {h \in DOMAIN imps : ~imps[h].ignored}}
                 \cup UNION {fields[i].used : i \in DOMAIN fields}
            /\ ginit' = generateInitFunction(cur, queuedInit(cur)).init
            /\ Buffer' = generatedFile(cur, writeOutput(cur), usedPackages',
                                       generatedBody(cur, writeOutput(cur), imps,
                                                     queuedInit(cur)))
            /\ Response' = IF writeOutput(cur)
                           THEN Append(Response, [name |-> goFileName(allFiles[cur]),
                                                  content |-> Buffer'])
                           ELSE Response
            /\ fileExported' = addExports(fileExported, cur, exports, 1)
            /\ written' = Append(written,
                 [aliases |-> Flatten([j \in DOMAIN imps |-> imps[j].aliases]),
                  fields |-> fields])
            /\ warnings' = warnings \o loggedWarnings(cur, fields)
            /\ tpc' = IF cur = Len(allFiles) THEN "done" ELSE "generate"

\* GenerateAllFiles: one round of "for _, file := range g.allFiles", that
\* is generate(file): the public imports, the enums and the messages
Generate ==
    /\ tpc = "generate"
    /\ generate(Len(written) + 1,
                generatedImports(Len(written) + 1),
                generatedFields(Len(written) + 1, generatedMessages(Len(written) + 1)),
                generatedExports(Len(written) + 1, generatedMessages(Len(written) + 1)))
    /\ UNCHANGED <<Request, fileDesc, fileEnum, fileImp, typeNameToObject>>
    /\ UNCHANGED <<nameVars, fieldVars, codecVars, pkgVars>>

NextTypes ==
    \/ WrapFile \/ WrapImported
    \/ RegisterPackage \/ RegisterSupport \/ RegisterFile
    \/ BuildTypeNameMap \/ Generate

SpecTypes == InitTypes /\ [][NextTypes]_vars


-----------------------------------------------------------------------------
(* Claims about the type-name map, ObjectNamed and the public imports *)

TypeNamesBuilt == tpc \in {"generate", "done"} \/ gfile # 0

\* C13: after BuildTypeNameMap every message at any depth and every enum
\* of every file of the request is stored under "."+package+"."+path
\* ("."+path for the empty package), the map holds nothing else, and each
\* name maps to the descriptor declared under it.
C13_TypeNameMapComplete ==
    TypeNamesBuilt =>
      /\ \A f \in DOMAIN allFiles :
           /\ \A m \in DeclaredMessages(allFiles[f]) :
                LET key == FullName(allFiles[f], m.path)
                IN  /\ key \in DOMAIN typeNameToObject
                    /\ typeNameToObject[key].kind = "message"
                    /\ typeNameToObject[key].file = allFiles[f].name
                    /\ typeNameToObject[key].via = <<>>
                    /\ fileDesc[f][typeNameToObject[key].idx].proto = m.proto
                    /\ DescriptorTypeName(fileDesc[f], typeNameToObject[key].idx) = m.path
           /\ \A e \in DeclaredEnums(allFiles[f]) :
                LET key == FullName(allFiles[f], e.path)
                IN  /\ key \in DOMAIN typeNameToObject
                    /\ typeNameToObject[key].kind = "enum"
                    /\ typeNameToObject[key].file = allFiles[f].name
                    /\ typeNameToObject[key].via = <<>>
                    /\ fileEnum[f][typeNameToObject[key].idx].proto = e.proto
      /\ DOMAIN typeNameToObject =
           UNION {{FullName(allFiles[f], x.path) :
                     x \in DeclaredMessages(allFiles[f]) \cup DeclaredEnums(allFiles[f])} :
                  f \in DOMAIN allFiles}

\* the map holds a message of a file without package, a message two
\* levels deep and an enum nested in a nested message
C13_Witness ==
    /\ tpc = "done"
    /\ <<".","M">> \in DOMAIN typeNameToObject
    /\ <<".","M",".","M","E","n","t","r","y">> \in DOMAIN typeNameToObject
    /\ <<".","d",".","T",".","U",".","V">> \in DOMAIN typeNameToObject
    /\ <<".","d",".","T",".","U",".","K">> \in DOMAIN typeNameToObject
    /\ <<".","d",".","G">> \in DOMAIN typeNameToObject

\* every call of ObjectNamed that returned: the file being generated, the
\* name asked for and the Object returned
Resolutions ==
    UNION {
      {[cur |-> f, typeName |-> written[f].fields[i].typeName,
        o |-> written[f].fields[i].o, warned |-> written[f].fields[i].warned] :
          i \in {h \in DOMAIN written[f].fields :
                   written[f].fields[h].type \in {"message", "group", "enum"}}}
      \cup
      {[cur |-> f, typeName |-> written[f].fields[i].valTypeName,
        o |-> written[f].fields[i].valO, warned |-> written[f].fields[i].valWarned] :
          i \in {h \in DOMAIN written[f].fields :
                   written[f].fields[h].valTypeName # <<>>}} :
      f \in DOMAIN written}

\* the file that defines r's type is the file being generated or one of
\* its dependencies
IsDirect(r) ==
    LET o == typeNameToObject[r.typeName]
    IN  \/ o.file = allFiles[r.cur].name
        \/ \E i \in DOMAIN allFiles[r.cur].dependency :
              allFiles[r.cur].dependency[i] = o.file

\* the dependencies of the file being generated whose public-import set
\* holds an alias of r's type, as positions in the dependency list
AliasHolders(r) ==
    {i \in DOMAIN allFiles[r.cur].dependency :
       \E j \in DOMAIN fileImp[fileByName(allFiles[r.cur].dependency[i])] :
          fileImp[fileByName(allFiles[r.cur].dependency[i])][j] =
            [typeNameToObject[r.typeName] EXCEPT !.via = allFiles[r.cur].dependency[i]]}

FirstAlias(r) ==
    [typeNameToObject[r.typeName] EXCEPT
       !.via = allFiles[r.cur].dependency[
                 CHOOSE i \in AliasHolders(r) : \A h \in AliasHolders(r) : i <= h]]

NamesUsed(file) ==
    UNION {{m.proto.field[i].typeName :
              i \in {h \in DOMAIN m.proto.field :
                       m.proto.field[h].type \in {"message", "group", "enum"}}} :
           m \in DeclaredMessages(file)}

GenerateAborted == tpc = "failed" /\ gfile # 0

\* C15: ObjectNamed aborts the run iff the name is not a key of the
\* type-name map; for a name that is present, not direct and held by no
\* dependency's public-import set, it logs a warning, does not abort and
\* returns the original descriptor; it logs no warning otherwise.
C15_AbortIffMissing ==
    /\ gfile # 0 =>
         (GenerateAborted <=>
            \E name \in NamesUsed(allFiles[gfile]) : name \notin DOMAIN typeNameToObject)
    /\ \A f \in DOMAIN written :
         \A name \in NamesUsed(allFiles[f]) : name \in DOMAIN typeNameToObject
    /\ \A r \in Resolutions :
         /\ r.warned <=> (~IsDirect(r) /\ AliasHolders(r) = {})
         /\ r.warned =>
              /\ r.o = typeNameToObject[r.typeName]
              /\ \E k \in DOMAIN warnings :
                    warnings[k] = [typeName |-> r.typeName, file |-> allFiles[r.cur].name]

\* a run that logged a warning for d.T used in a.proto and went on to the
\* end
C15_Witness ==
    /\ tpc = "done"
    /\ \E k \in DOMAIN warnings :
          warnings[k] = [typeName |-> <<".","d",".","T">>, file |-> FileA]
    /\ \E r \in Resolutions : r.warned /\ r.o.file = FileD /\ r.o.via = <<>>

\* file b publicly imports file c (names of files)
PubliclyImports(b, c) ==
    \E i \in DOMAIN allFiles[fileByName(b)].publicDependency :
       allFiles[fileByName(b)].dependency[
          allFiles[fileByName(b)].publicDependency[i] + 1] = c

\* C16 as stated: when a.proto lists B, B publicly imports C, C publicly
\* imports D and a field of a.proto has a type defined in D (C and D not
\* being dependencies of a.proto themselves), the Object resolved for the
\* field is of the package of a dependency of a.proto, never of the
\* package of C or of D.
C16_TwoLevelsUseDirectPackage ==
    \A r \in Resolutions :
       \A b, c, d \in {allFiles[f].name : f \in DOMAIN allFiles} :
          LET deps == {allFiles[r.cur].dependency[i] :
                         i \in DOMAIN allFiles[r.cur].dependency}
          IN  ( /\ b \in deps /\ c \notin deps /\ d \notin deps
                /\ c # allFiles[r.cur].name /\ d # allFiles[r.cur].name
                /\ PubliclyImports(b, c) /\ PubliclyImports(c, d)
                /\ typeNameToObject[r.typeName].file = d )
              => /\ PackageNameOf(r.o) \in {uniquePackageName[fileByName(x)] : x \in deps}
                 /\ PackageNameOf(r.o) # uniquePackageName[fileByName(c)]
                 /\ PackageNameOf(r.o) # uniquePackageName[fileByName(d)]

\* the names of the symbols a file makes available: those of its export
\* table and those it forwards from its own public imports
Available(f) ==
    {fileExported[f][k].sym.name : k \in DOMAIN fileExported[f]}
    \cup {written[f].aliases[k].sym.name : k \in DOMAIN written[f].aliases}

\* C17 as stated: the aliases written for a file that publicly imports B
\* (B not being generated itself) cover every symbol B defines and every
\* symbol B forwards from its own public imports.
C17_AliasesCoverReexports ==
    \A f \in DOMAIN written :
       \A b \in DOMAIN written :
          ( /\ PubliclyImports(allFiles[f].name, allFiles[b].name)
            /\ b \notin Range(genFiles) )
          => \A n \in Available(b) :
                \E k \in DOMAIN written[f].aliases : written[f].aliases[k].sym.name = n

\* C18 as stated: a getter is put in the export entry of a message never
\* for a group field, for a message or enum field only when the resolved
\* type is of the message's own output package, and for a map field only
\* when its value type, if a message or an enum, is of that package.
C18_ExportedGettersOwnPackage ==
    \A f \in DOMAIN written :
       \A i \in DOMAIN written[f].fields :
          LET fld == written[f].fields[i]
          IN  fld.getter =>
                /\ fld.type # "group"
                /\ (fld.type \in {"message", "enum"} /\ ~fld.isMap)
                     => PackageNameOf(fld.o) = uniquePackageName[f]
                /\ (fld.isMap /\ fld.valTypeName # <<>>)
                     => PackageNameOf(fld.valO) = uniquePackageName[f]

\* C19: a round of GenerateAllFiles, that is generate(F), changes the
\* export table of F only; the export table of every other file, the
\* files F imports included, is as it was.
C19_OnlyOwnExportTable ==
    [][tpc = "generate" =>
         \A f \in DOMAIN fileExported : f # gfile' => fileExported'[f] = fileExported[f]]_vars

\* a.proto, which publicly imports b.proto, was generated: it replayed
\* symbols of b.proto's table and filled its own
C19_Witness ==
    /\ tpc = "done"
    /\ \E f, b \in DOMAIN written :
          /\ f # b
          /\ written[f].aliases # <<>>
          /\ fileExported[f] # <<>>
          /\ fileExported[b] # <<>>
          /\ PubliclyImports(allFiles[f].name, allFiles[b].name)

\* the wrapping of a file was given up by buildNestedDescriptors or
\* buildNestedEnums
WrapAborted == tpc = "failed" /\ Len(allFiles) < Len(Request.protoFile)

-----------------------------------------------------------------------------
(* Claims about Go types, defaults and getters of one field *)

\* how many pointer stars the Go type, given as the parts GoType joins,
\* starts with
RECURSIVE Stars(_)
Stars(typ) ==
    IF typ # <<>> /\ typ[1] = "*" THEN 1 + Stars(Tail(typ)) ELSE 0

SingularProto2(i) ==
    /\ ~message.proto3
    /\ message.field[i].label # "repeated"
    /\ message.field[i].oneofIndex = NoOneof

FallsBackToDefault(i) ==
    /\ i \in DOMAIN defNames
    /\ getterBody[i].fallback \in
         {defNames[i], "append([]byte(nil), " \o defNames[i] \o "...)"}

\* goTag wrote a def= entry for field i
TagHasDef(i) == goTags[i].defaultValue # ""

\* C29: the struct tag of a field carries a def= entry exactly when a
\* Default_ constant is generated for the field and its getter falls back
\* to that constant, also for an explicit default that is the empty string.
C29_TagDefIffDefaultConstant ==
    pc = "done" =>
        \A i \in DOMAIN goTags : TagHasDef(i) <=> FallsBackToDefault(i)

\* the same for the fields whose declared default is not the empty string
C29_AgreeOnNonEmptyDefaults ==
    pc = "done" =>
        \A i \in DOMAIN goTags :
            ~(message.field[i].default.set /\ message.field[i].default.val = "") =>
                (TagHasDef(i) <=> FallsBackToDefault(i))

\* What a generated getter returns, as Go expression text.  m.F of a
\* message whose field is set is written StoredValue; unset it is nil
\* for a pointer, slice or message field and the zero value for a proto3
\* scalar.
StoredValue == "<stored>"

Unset(m, field) ==
    IF m.proto3 /\ ~isRepeated(field) /\ field.type \notin {"message", "group", "bytes"}
    THEN "<zero>"
    ELSE "nil"

Stored(m, field, present) == IF present THEN StoredValue ELSE Unset(m, field)

\* the value of the declaration called name
DeclValue(name) ==
    decls[CHOOSE k \in DOMAIN decls : decls[k].name = name].value

\* the getter body of field i run on a receiver that is nil or not, with
\* the field set or not
GetterReturns(i, recvNil, present) ==
    LET b == getterBody[i]
        F == Str(fieldNames[i])
        holds == CASE b.cond = "m != nil" -> ~recvNil
                   [] b.cond = "m != nil && m." \o F \o " != nil" -> ~recvNil /\ present
                   [] OTHER -> FALSE
    IN  CASE holds /\ b.value = "m." \o F -> Stored(message, message.field[i], present)
          [] holds /\ b.value = "*m." \o F -> IF present THEN StoredValue ELSE "<panic>"
          [] ~holds /\ FallsBackToDefault(i) -> DeclValue(defNames[i])
          [] OTHER -> b.fallback

\* the default a field of the kind has when none is declared
ImplicitDefault(field) ==
    CASE field.type = "bool" -> "false"
      [] field.type = "string" -> "\"\""
      [] field.type \in {"group", "message", "bytes"} -> "nil"
      [] field.type = "enum" -> enumFallback(refObj)
      [] OTHER -> "0"

\* policy (a) of the getters: repeated, message or group, or bytes without
\* explicit default
NilDefaultPolicy(field) ==
    \/ isRepeated(field)
    \/ field.type \in {"message", "group"}
    \/ field.type = "bytes" /\ ~field.default.set

\* what the two policies ask the getter of field i to return
PolicyReturns(i, recvNil, present) ==
    LET field == message.field[i]
    IN  CASE NilDefaultPolicy(field) ->
               IF ~recvNil THEN Stored(message, field, present) ELSE "nil"
          [] ~NilDefaultPolicy(field) /\ ~recvNil /\ (message.proto3 \/ present) ->
               Stored(message, field, present)
          [] OTHER -> IF field.default.set THEN DefaultDecl(message, i).value
                      ELSE ImplicitDefault(field)

\* a nil []byte and []byte("") are the same byte string
SameValue(field, x) ==
    IF field.type = "bytes" /\ ~isRepeated(field) /\ x = "[]byte(\"\")" THEN "nil" ELSE x

\* C23: the getter of a field outside any oneof returns, (a) for a
\* repeated field, a message or group field, or a bytes field with no
\* explicit default, the stored value when the receiver is not nil and nil
\* otherwise; (b) for any other field the stored value when the receiver is
\* not nil (proto3) or not nil with the field set (proto2), and the
\* declared default, or the kind's implicit default, in every other case.
C23_GetterPolicy ==
    pc = "done" =>
        \A i \in DOMAIN getterBody :
            message.field[i].oneofIndex = NoOneof =>
                \A recvNil, present \in BOOLEAN :
                    SameValue(message.field[i], GetterReturns(i, recvNil, present))
                        = SameValue(message.field[i], PolicyReturns(i, recvNil, present))

\* the getter of a proto2 string field that declares the default "hi"
\* returns the stored value when the field is set and the default when not
C23_Witness ==
    /\ pc = "done"
    /\ ~message.proto3
    /\ message.field[1].oneofIndex = NoOneof
    /\ message.field[1].type = "string"
    /\ message.field[1].default = [set |-> TRUE, val |-> "hi"]
    /\ GetterReturns(1, FALSE, FALSE) = "\"hi\""
    /\ GetterReturns(1, FALSE, TRUE) = StoredValue

\* "func (m *T) Get<fname>()": the accessor written for oneof oi
OneofAccessor(oi) == GetPrefix \o oneofFieldName[oi]

\* C27: the accessor of each oneof of a message, named Get followed by the
\* union-field identifier allocated for the oneof, has a name different
\* from every field identifier, from every field getter identifier and from
\* the accessor of every other oneof of the message.
C27_OneofAccessorsDistinct ==
    pc = "done" =>
        \A oi \in AllocatedOneofs :
            /\ \A i \in DOMAIN fieldNames : OneofAccessor(oi) # fieldNames[i]
            /\ \A i \in DOMAIN fieldGetterNames : OneofAccessor(oi) # fieldGetterNames[i]
            /\ \A oj \in AllocatedOneofs : oj # oi => OneofAccessor(oj) # OneofAccessor(oi)

\* C28: whenever a call of the generated oneof unmarshaler returns an
\* error (wrong wire type, or a failing primitive, message or group
\* decode), every oneof of the message holds the variant it held before
\* the call.
C28_FailedDecodeKeepsVariant ==
    (ret.called /\ ret.err # "nil") => dst = ret.before

-----------------------------------------------------------------------------
(* Claims about the struct text of a message *)

NotWrapperLine(l) == l.kind # "wrapper"

\* the line of buf that holds the header of oneof oi
HeaderLine(buf, oi) ==
    CHOOSE k \in DOMAIN buf : buf[k].kind = "header" /\ buf[k].oi = oi

\* in buf the wrapper types of oneof oi are listed right after its header
ListedAfterHeader(buf, oi) ==
    LET h == HeaderLine(buf, oi)
        ws == oneofTypeLines(oi)
    IN  /\ h + Len(ws) <= Len(buf)
        /\ SubSeq(buf, h + 1, h + Len(ws)) = ws

\* the step of generateMessage that ends the struct and inserts the lists
\* of wrapper types
InsertionStep == pc = "fields" /\ pc' = "done"

InsertedInPlace ==
    /\ SelectSeq(buffer', NotWrapperLine) = buffer \o structEnd(message)
    /\ \A oi \in DOMAIN oneofInsertPoints : ListedAfterHeader(buffer', oi)

\* the first members of the oneofs appear in the order of the oneof indexes
FirstMembersInIndexOrder ==
    \A oi, oj \in DOMAIN oneofInsertPoints :
        oi < oj => oneofInsertPoints[oi] < oneofInsertPoints[oj]

\* C24: after the insertion loop of generateMessage, which goes through
\* the oneof indexes downwards, the wrapper types of each oneof are listed
\* right after that oneof's own "Types that are valid to be assigned to"
\* line and all other lines keep their order, whatever the order in which
\* the first members of the oneofs appear among the fields.
C24_WrapperListsAfterOwnHeader ==
    [][InsertionStep => InsertedInPlace]_vars

\* the same for the messages protoc builds, where the first member of a
\* oneof of lower index comes first
C24_InPlaceWhenInIndexOrder ==
    [][(InsertionStep /\ FirstMembersInIndexOrder) => InsertedInPlace]_vars

-----------------------------------------------------------------------------
(* Claims about the constants of the enums of a file *)

\* C22: two different enum values written into one generated file (of one
\* enum, of two enums nested in the same message, or of a top-level enum
\* and an enum nested in a message) never get the same constant name.
C22_EnumConstantsDistinct ==
    pc # "enums" =>
        \A i, j \in DOMAIN decls :
            (i # j /\ decls[i].pkg = decls[j].pkg) => decls[i].name # decls[j].name

\* the same for the enums nested in messages alone
C22_NestedEnumConstantsDistinct ==
    (pc # "enums" /\ \A k \in DOMAIN gfileEnum : Len(gfileEnum[k].typeName) > 1) =>
        \A i, j \in DOMAIN decls :
            (i # j /\ decls[i].pkg = decls[j].pkg) => decls[i].name # decls[j].name

-----------------------------------------------------------------------------
(* Claims about the output of GenerateAllFiles *)

\* generate has completed for allFiles[cur] and for no file after it
Generated(cur) == gfile = cur /\ Len(written) = cur

\* the lines of the kind in the buffer that are for dependency d
LinesFor(kind, d) == {k \in DOMAIN Buffer : Buffer[k].kind = kind /\ Buffer[k].dep = d}

\* the packages recorded as used while allFiles[cur] was generated, by
\* generateImported and by RecordTypeUse
UsedWhileGenerating(cur) ==
    {generatedImports(cur)[j].used :
        j \in {h \in DOMAIN generatedImports(cur) : ~generatedImports(cur)[h].ignored}}
    \cup UNION {written[cur].fields[i].used : i \in DOMAIN written[cur].fields}

\* the dependency at position d (from 1) is listed in weak_dependency,
\* which counts from 0
WeakImport(cur, d) == (d - 1) \in Range(allFiles[cur].weakDependency)

SamePackage(cur, d) ==
    uniquePackageName[fileByName(allFiles[cur].dependency[d])] = packageName

\* one import line exactly for a dependency that is not weak and of another
\* package, named by the package if the file used it and blank if not
ImportLineIffNeeded(cur, d) ==
    /\ Cardinality(LinesFor("import", d)) =
          IF ~WeakImport(cur, d) /\ ~SamePackage(cur, d) THEN 1 ELSE 0
    /\ \A k \in LinesFor("import", d) :
          Buffer[k].text =
             IF uniquePackageName[fileByName(allFiles[cur].dependency[d])]
                   \in UsedWhileGenerating(cur)
             THEN uniquePackageName[fileByName(allFiles[cur].dependency[d])]
             ELSE "_"

RequestedAndGenerated(cur) == Generated(cur) /\ writeOutput(cur)

\* C21: for each entry of the dependency list of the file, generateImports
\* writes exactly one import line if and only if the dependency is not weak
\* and its package differs from the package being generated, named by the
\* dependency's package if that package was recorded as used while this
\* file was generated and blank otherwise; a weak dependency yields only a
\* comment, and a dependency of the same package yields nothing.
C21_ImportPerDependency ==
    \A cur \in DOMAIN allFiles :
       RequestedAndGenerated(cur) =>
          \A d \in DOMAIN allFiles[cur].dependency :
             /\ ImportLineIffNeeded(cur, d)
             /\ WeakImport(cur, d) =>
                   Cardinality(LinesFor("// skipping weak import", d)) = 1
             /\ SamePackage(cur, d) =>
                   Cardinality(LinesFor("// skipping weak import", d)) = 0

\* C21, with the comment only for a weak dependency of another package: a
\* dependency of the package being generated yields nothing, weak or not.
C21_ImportPerDependencyOfOtherPackage ==
    \A cur \in DOMAIN allFiles :
       RequestedAndGenerated(cur) =>
          \A d \in DOMAIN allFiles[cur].dependency :
             /\ ImportLineIffNeeded(cur, d)
             /\ Cardinality(LinesFor("// skipping weak import", d)) =
                   IF WeakImport(cur, d) /\ ~SamePackage(cur, d) THEN 1 ELSE 0

\* a.proto was generated with a weak import of another package, a named
\* import and a blank import
C21_Witness ==
    /\ RequestedAndGenerated(Len(allFiles))
    /\ \E d \in DOMAIN allFiles[gfile].dependency :
          WeakImport(gfile, d) /\ LinesFor("// skipping weak import", d) # {}
    /\ \E k \in DOMAIN Buffer :
          Buffer[k].kind = "import" /\ Buffer[k].dep # 0 /\ Buffer[k].text = "_"
    /\ \E k \in DOMAIN Buffer :
          Buffer[k].kind = "import" /\ Buffer[k].dep # 0 /\ Buffer[k].text # "_"

\* the files generate has completed for that the request asks output for
RequestedSoFar ==
    InOrder({f \in 1..Len(written) : allFiles[f].name \in Range(Request.fileToGenerate)})

\* one response file for each requested file generated so far, in order
ResponseForRequested ==
    /\ Len(Response) = Len(RequestedSoFar)
    /\ \A k \in DOMAIN Response :
          Response[k].name = goFileName(allFiles[RequestedSoFar[k]])

\* generate runs for the files of the request one after the other
NextFileInRequestOrder ==
    gfile' # gfile =>
        /\ gfile' = gfile + 1
        /\ gfile' = Len(written) + 1
        /\ allFiles[gfile'] = Request.protoFile[gfile']

\* the export tables generateImported reads in this step are those of
\* files generate has completed for
ReplaysCompletedFiles ==
    Len(written') > Len(written) =>
        \A j \in DOMAIN fileImp[Len(written')] :
            fileByName(fileImp[Len(written')][j].file) \in 1..Len(written)

\* the export table of a file does not change once generate has completed
\* for it
CompletedTablesStay ==
    \A d \in 1..Len(written) : fileExported'[d] = fileExported[d]

\* C25: GenerateAllFiles runs generate once for every file of the request,
\* requested or not, in the order of the request, and appends a response
\* file only for the requested files; for a request whose files are in
\* dependency order, whenever generateImported replays the export entries
\* of a publicly imported file, generate has already completed for that
\* file, so that its export table is complete.
C25_AllFilesInOrderExportsComplete ==
    [][/\ NextFileInRequestOrder
       /\ ResponseForRequested'
       /\ tpc' = "done" => Len(written') = Len(Request.protoFile)
       /\ ReplaysCompletedFiles
       /\ CompletedTablesStay]_vars

\* a.proto was generated with aliases replayed from a public import, after
\* files that got no response file
C25_Witness ==
    /\ tpc = "done"
    /\ written[Len(written)].aliases # <<>>
    /\ Len(Response) = 1
    /\ Len(written) > 2

Requested(cur) == allFiles[cur].name \in Range(Request.fileToGenerate)

\* every line of the lines was written while allFiles[cur] was generated
OwnLines(lines, cur) == \A k \in DOMAIN lines : lines[k].file = cur

\* C30: generate starts for each file with an empty buffer, an empty set
\* of used packages and an empty list of queued init statements, so that no
\* output text, import usage or registration statement of one file shows
\* up in the output of another; and while a file that was not requested is
\* processed, nothing is written to the buffer.
C30_NothingCarriedOver ==
    /\ tpc = "generate" => ginit = <<>>
    /\ \A cur \in DOMAIN allFiles :
          Generated(cur) =>
             /\ OwnLines(Buffer, cur)
             /\ usedPackages = UsedWhileGenerating(cur)
             /\ ~Requested(cur) => Buffer = <<>>
    /\ \A k \in DOMAIN Response :
          OwnLines(Response[k].content, RequestedSoFar[k])

\* b.proto, not requested, was generated after the requested c.proto: it
\* queued its registrations and left the buffer empty
C30_Witness ==
    /\ Generated(3)
    /\ ~Requested(3)
    /\ Len(Response) = 1
    /\ Response[1].content # <<>>
    /\ queuedInit(3) # <<>>
    /\ Buffer = <<>>

=============================================================================
